---------------------------- MODULE Spec2Model ----------------------------
(***************************************************************************)
(* A model of the JPI EDM flight-log decoder (class Decomp of              *)
(* src/src/decomp.ts).  The decoder instance is the state; parseFile,      *)
(* openFlight, readRecord and decodeFlightToRows are the actions.  Text is *)
(* a sequence of one-character strings, so that formatting, joining and    *)
(* splitting are computed and not assumed.                                 *)
(***************************************************************************)
EXTENDS Integers, Sequences, FiniteSets, TLC

(***************************************************************************)
(* Bounds of the model.                                                    *)
(***************************************************************************)
\* rows of one decodeFlightToRows call that are kept; later rows are dropped
MaxRows == 4
\* API calls (openFlight / readRecord / decodeFlightToRows) after parseFile
MaxCalls == 3
\* data records per generated flight
MaxRecs == 2

(***************************************************************************)
(* Text: sequences of one-character strings.                               *)
(***************************************************************************)
OrdTable ==
  [c \in {"$", "*", ",", " ", "-", ".", "?"} |->
      CASE c = "$" -> 36 [] c = "*" -> 42 [] c = "," -> 44 [] c = " " -> 32
        [] c = "-" -> 45 [] c = "." -> 46 [] OTHER -> 63]
  @@ [c \in {"0","1","2","3","4","5","6","7","8","9"} |->
      CASE c = "0" -> 48 [] c = "1" -> 49 [] c = "2" -> 50 [] c = "3" -> 51
        [] c = "4" -> 52 [] c = "5" -> 53 [] c = "6" -> 54 [] c = "7" -> 55
        [] c = "8" -> 56 [] OTHER -> 57]
  @@ [c \in {"A","C","D","E","F","H","I","L","P","T","U","W","Z","N"} |->
      CASE c = "A" -> 65 [] c = "C" -> 67 [] c = "D" -> 68 [] c = "E" -> 69
        [] c = "F" -> 70 [] c = "H" -> 72 [] c = "I" -> 73 [] c = "L" -> 76
        [] c = "P" -> 80 [] c = "T" -> 84 [] c = "U" -> 85 [] c = "W" -> 87
        [] c = "Z" -> 90 [] OTHER -> 78]

Ord(c) == OrdTable[c]

\* String.fromCharCode for the bytes the metadata block uses; any other byte
\* is a character that equals none of them
Chr(b) ==
  IF \E c \in DOMAIN OrdTable : OrdTable[c] = b
    THEN CHOOSE c \in DOMAIN OrdTable : OrdTable[c] = b
    ELSE "#"

Bytes(s) == [i \in 1..Len(s) |-> Ord(s[i])]

DigitChars == <<"0","1","2","3","4","5","6","7","8","9">>

IsDigit(c) == \E d \in 1..10 : DigitChars[d] = c

DigitVal(c) == (CHOOSE d \in 1..10 : DigitChars[d] = c) - 1

RECURSIVE NatStr(_)
\* Number.prototype.toString of a non-negative integer
NatStr(n) == IF n < 10 THEN <<DigitChars[n + 1]>>
             ELSE NatStr(n \div 10) \o <<DigitChars[(n % 10) + 1]>>

\* toString of any integer
IntStr(n) == IF n < 0 THEN <<"-">> \o NatStr(-n) ELSE NatStr(n)

RECURSIVE Repeat(_, _)
Repeat(c, k) == IF k <= 0 THEN <<>> ELSE <<c>> \o Repeat(c, k - 1)

lpad(s, width) == IF Len(s) >= width THEN s ELSE Repeat("0", width - Len(s)) \o s

\* Math.trunc(n).toString() with a space before a non-negative value
vbIntStr(n) == IF n >= 0 THEN <<" ">> \o IntStr(n) ELSE IntStr(n)

\* (n / scale).toFixed(1) for scale = 10: one decimal, dot separator
vbFloat1(n, scale) ==
  LET a == IF n < 0 THEN -n ELSE n
      t == (a * 10) \div scale
      body == NatStr(t \div 10) \o <<".">> \o <<DigitChars[(t % 10) + 1]>>
  IN IF n < 0 /\ t > 0 THEN <<"-">> \o body ELSE body

RECURSIVE SplitAt(_, _, _)
\* String.prototype.split(sep): the pieces between the separators
SplitAt(s, sep, cur) ==
  IF s = <<>> THEN <<cur>>
  ELSE IF Head(s) = sep THEN <<cur>> \o SplitAt(Tail(s), sep, <<>>)
  ELSE SplitAt(Tail(s), sep, Append(cur, Head(s)))

Split(s, sep) == SplitAt(s, sep, <<>>)

RECURSIVE DigitsVal(_, _)
DigitsVal(s, acc) == IF s = <<>> THEN acc
                     ELSE DigitsVal(Tail(s), acc * 10 + DigitVal(Head(s)))

AllDigits(s) == \A i \in 1..Len(s) : IsDigit(s[i])

\* Math.trunc(Number(s)) for the fields the generated files carry: the empty
\* string is 0, a digit string its value; anything else is not a number
NumberOf(s) ==
  IF s = <<>> THEN [nan |-> FALSE, v |-> 0]
  ELSE IF AllDigits(s) THEN [nan |-> FALSE, v |-> DigitsVal(s, 0)]
  ELSE [nan |-> TRUE, v |-> 0]

RECURSIVE LeadingDigits(_)
LeadingDigits(s) == IF s = <<>> \/ ~IsDigit(Head(s)) THEN <<>>
                    ELSE <<Head(s)>> \o LeadingDigits(Tail(s))

\* parseInt(s, 10): the leading digits, not a number when there are none
ParseInt(s) ==
  LET d == LeadingDigits(s)
  IN IF d = <<>> THEN [nan |-> TRUE, v |-> 0] ELSE [nan |-> FALSE, v |-> DigitsVal(d, 0)]

\* parseInt(s, 10) || 0
ParseIntOr0(s) == IF ParseInt(s).nan THEN 0 ELSE ParseInt(s).v

(***************************************************************************)
(* Bit operations of JavaScript on 32-bit two's-complement values.         *)
(***************************************************************************)
Pow2(k) == 2 ^ k

\* the low 31 bits of a 32-bit two's-complement value
Low31(a) == IF a >= 0 THEN a ELSE (a + 2147483647) + 1

\* (a & m) !== 0 for a mask m that is a power of two below 2^31; a may be
\* negative
TestMask(a, m) == m > 0 /\ (Low31(a) \div m) % 2 = 1

\* a & m for 0 <= m < 2^16
RECURSIVE AndBits(_, _, _)
AndBits(a, m, k) ==
  IF k < 0 THEN 0
  ELSE (IF TestMask(m, Pow2(k)) /\ TestMask(a, Pow2(k)) THEN Pow2(k) ELSE 0)
       + AndBits(a, m, k - 1)

BitAnd(a, m) == AndBits(a, m, 15)

(***************************************************************************)
(* Byte cursor.  The buffer b is a sequence of bytes; the code's offset p  *)
(* is 0-based, so bin[p] is b[p + 1].                                      *)
(***************************************************************************)
\* bin[i]; an index outside the array reads undefined, which << 8 turns to 0
ByteAt(b, i) == IF i >= 0 /\ i < Len(b) THEN b[i + 1] ELSE 0

\* getByte: -1 past the end, else the byte, the cursor moved by one
getByte(b, p) ==
  IF p >= Len(b) THEN [v |-> -1, p |-> p]
  ELSE [v |-> ByteAt(b, p), p |-> p + 1]

\* getWord that reads 0 when fewer than two bytes remain
getWord_Zero(b, p) ==
  IF p + 1 >= Len(b) THEN [v |-> 0, p |-> p]
  ELSE [v |-> ByteAt(b, p) * 256 + ByteAt(b, p + 1), p |-> p + 2]

\* getWord: -1 when fewer than two bytes remain, else hi * 256 + lo
getWord(b, p) ==
  IF p + 1 >= Len(b) THEN [v |-> -1, p |-> p]
  ELSE [v |-> ByteAt(b, p) * 256 + ByteAt(b, p + 1), p |-> p + 2]

getWordAt(b, pos) ==
  IF pos + 1 >= Len(b) THEN -1 ELSE ByteAt(b, pos) * 256 + ByteAt(b, pos + 1)

\* getLong without the "+ 1" of the negative branch
getLong_OnesComplement(b, p) ==
  IF p + 3 >= Len(b) THEN [nan |-> TRUE, v |-> 0, p |-> p]
  ELSE LET hi == ByteAt(b, p)
           mh == ByteAt(b, p + 1)
           ml == ByteAt(b, p + 2)
           lo == ByteAt(b, p + 3)
       IN IF hi >= 128
            THEN [nan |-> FALSE,
                  v |-> -((255 - hi) * 16777216 + (255 - mh) * 65536
                          + (255 - ml) * 256 + (255 - lo)),
                  p |-> p + 4]
            ELSE [nan |-> FALSE,
                  v |-> hi * 16777216 + mh * 65536 + ml * 256 + lo,
                  p |-> p + 4]

\* getLong: big-endian signed 32-bit value; not a number on underflow
getLong(b, p) ==
  IF p + 3 >= Len(b) THEN [nan |-> TRUE, v |-> 0, p |-> p]
  ELSE LET hi == ByteAt(b, p)
           mh == ByteAt(b, p + 1)
           ml == ByteAt(b, p + 2)
           lo == ByteAt(b, p + 3)
       IN IF hi >= 128
            THEN [nan |-> FALSE,
                  v |-> -((255 - hi) * 16777216 + (255 - mh) * 65536
                          + (255 - ml) * 256 + (255 - lo)) - 1,
                  p |-> p + 4]
            ELSE [nan |-> FALSE,
                  v |-> hi * 16777216 + mh * 65536 + ml * 256 + lo,
                  p |-> p + 4]

RECURSIVE skipLoop(_, _, _, _)
skipLoop(sz, p, i, n) ==
  IF i < n /\ p <= sz THEN skipLoop(sz, p + 1, i + 1, n) ELSE p

\* skip(n): for (i = 0; i < n && ptr <= size; i++) ptr++
skip(sz, p, n) == skipLoop(sz, p, 0, n)

\* checkStartPoint: offset of the first "$U", 0 when there is none
checkStartPoint(b) ==
  LET hits == {i \in 0..(Len(b) - 2) : ByteAt(b, i) = 36 /\ ByteAt(b, i + 1) = 85}
  IN IF hits = {} THEN 0 ELSE CHOOSE i \in hits : \A j \in hits : i <= j

RECURSIVE readUntilStar(_, _, _)
\* the characters up to the next '*' or the buffer end, and the cursor there
readUntilStar(b, p, s) ==
  IF p < Len(b) /\ ByteAt(b, p) # 42
    THEN readUntilStar(b, p + 1, Append(s, Chr(ByteAt(b, p))))
    ELSE [s |-> s, p |-> p]

(***************************************************************************)
(* Metadata scanner: parseDollarRecords and checkFlights.                  *)
(***************************************************************************)
RECURSIVE TrimLeft(_)
TrimLeft(s) == IF s # <<>> /\ Head(s) = " " THEN TrimLeft(Tail(s)) ELSE s

RECURSIVE TrimRight(_)
TrimRight(s) == IF s # <<>> /\ s[Len(s)] = " "
                  THEN TrimRight(SubSeq(s, 1, Len(s) - 1)) ELSE s

\* String.prototype.trim
Trim(s) == TrimRight(TrimLeft(s))

\* parseInt(s, 10) with an optional sign, as used on buildNum ("-1")
ParseSignedOr0(s) ==
  IF s # <<>> /\ Head(s) = "-" THEN -ParseIntOr0(Tail(s)) ELSE ParseIntOr0(s)

\* parts[k] of the code (0-based); a missing part is undefined
HasPart(parts, k) == k + 1 <= Len(parts)
Part(parts, k) == parts[k + 1]

\* Math.trunc(Number(parts[k])); Number(undefined) is not a number
NumPart(parts, k) ==
  IF HasPart(parts, k) THEN NumberOf(Part(parts, k)) ELSE [nan |-> TRUE, v |-> 0]

cmdOverhead == 5

\* a directory entry as pushed by the $D case
NewFlight(id, sizeBytes, bad) ==
  [id |-> id, size |-> sizeBytes, start |-> 0, date |-> <<>>, time |-> <<>>,
   interval |-> 0, found |-> "unset", nan |-> bad,
   hasLat |-> FALSE, latitudeStart |-> 0, hasLng |-> FALSE, longitudeStart |-> 0]

RECURSIVE AssignStarts_NoSum(_, _, _)
\* AssignStarts with every entry placed at the anchor
AssignStarts_NoSum(fl, i, p) ==
  IF i > Len(fl) THEN fl
  ELSE AssignStarts_NoSum([fl EXCEPT ![i].start = p], i + 1, p)

RECURSIVE AssignStarts(_, _, _)
\* the $L case: start of entry i = anchor + sizes of the entries before it
AssignStarts(fl, i, p) ==
  IF i > Len(fl) THEN fl
  ELSE AssignStarts([fl EXCEPT ![i].start = p], i + 1, p + fl[i].size)

TwinModels == {<<"7","6","0">>, <<"7","9","0">>, <<"9","6","0">>}

\* The state the scanner works on
MetaInit(b) ==
  [ptr |-> checkStartPoint(b), flights |-> <<>>, model |-> <<>>, buildNum |-> <<>>,
   edmType |-> FALSE, twin |-> FALSE, fUnit |-> 0, protocolId |-> 0,
   sawL |-> FALSE, stop |-> "end"]

RECURSIVE parseLoop(_, _)
\* the while loop of parseDollarRecords; stop records how the scan ended:
\* "L" ($L reached), "E" ($E reached), "tag" (unrecognized tag), "throw"
\* (caught exception), "end" (cursor at or past the buffer end)
parseLoop(b, m) ==
  IF ~(m.ptr < Len(b)) THEN m
  ELSE
    LET r == readUntilStar(b, m.ptr, <<>>)
        parts == Split(r.s, ",")
        cmd == parts[1]
        up == Len(parts) - 1
        skipped == skip(Len(b), r.p, cmdOverhead)
    IN CASE cmd \in {<<"$","A">>, <<"$","H">>, <<"$","I">>, <<"$","T">>,
                    <<"$","W">>, <<"$","U">>} ->
              parseLoop(b, [m EXCEPT !.ptr = skipped])
         [] cmd = <<"$","C">> ->
              IF ~HasPart(parts, 1)
                THEN [m EXCEPT !.ptr = r.p, !.buildNum = <<"-","1">>, !.stop = "throw"]
                ELSE LET mdl == Trim(Part(parts, 1))
                     IN parseLoop(b,
                          [m EXCEPT !.ptr = skipped,
                                    !.buildNum = IF up = 8 \/ up = 9
                                                   THEN Trim(Part(parts, up - 1))
                                                   ELSE <<"-","1">>,
                                    !.model = mdl,
                                    !.edmType = ~ParseInt(mdl).nan /\ ParseInt(mdl).v >= 900,
                                    !.twin = mdl \in TwinModels])
         [] cmd = <<"$","D">> ->
              LET id == NumPart(parts, 1)
                  sw == NumPart(parts, 2)
              IN parseLoop(b,
                   [m EXCEPT !.ptr = skipped,
                             !.flights = Append(m.flights,
                                NewFlight(id.v, sw.v * 2, id.nan \/ sw.nan))])
         [] cmd = <<"$","F">> ->
              parseLoop(b, [m EXCEPT !.ptr = skipped,
                                     !.fUnit = IF HasPart(parts, 1)
                                                 THEN ParseIntOr0(Part(parts, 1)) ELSE 0])
         [] cmd = <<"$","P">> ->
              parseLoop(b, [m EXCEPT !.ptr = skipped,
                                     !.protocolId = NumPart(parts, 1).v,
                                     !.edmType = TRUE])
         [] cmd = <<"$","L">> ->
              [m EXCEPT !.ptr = skipped,
                        !.flights = AssignStarts(m.flights, 1, skipped),
                        !.sawL = TRUE, !.stop = "L"]
         [] cmd = <<"$","E">> ->
              \* break leaves the switch only: the loop goes on at the same offset
              parseLoop(b, [m EXCEPT !.ptr = r.p, !.stop = "E"])
         [] OTHER -> [m EXCEPT !.ptr = r.p,
                               !.stop = IF m.stop = "E" THEN "E" ELSE "tag"]

\* parseDollarRecords dropping the directory unless the scan reached $L
parseDollarRecords_Strict(b) ==
  LET m == parseLoop(b, MetaInit(b))
  IN IF m.stop = "L" THEN m ELSE [m EXCEPT !.flights = <<>>]

parseDollarRecords(b) == parseLoop(b, MetaInit(b))

RECURSIVE checkLoop_ShiftAll(_, _, _)
\* checkLoop with a recovery shifting every entry, earlier ones included
checkLoop_ShiftAll(b, fl, i) ==
  IF i > Len(fl) THEN fl
  ELSE IF getWordAt(b, fl[i].start) = fl[i].id /\ ~fl[i].nan
    THEN checkLoop_ShiftAll(b, [fl EXCEPT ![i].found = "true"], i + 1)
  ELSE IF getWordAt(b, fl[i].start - 1) = fl[i].id /\ ~fl[i].nan
    THEN checkLoop_ShiftAll(b,
           [j \in 1..Len(fl) |->
              IF j = i THEN [fl[j] EXCEPT !.found = "true", !.start = fl[j].start - 1]
              ELSE [fl[j] EXCEPT !.start = fl[j].start - 1]],
           i + 1)
  ELSE checkLoop_ShiftAll(b, [fl EXCEPT ![i].found = "false"], i + 1)

RECURSIVE checkLoop(_, _, _)
\* checkFlights: the recovery probe at start, then at start - 1 with the
\* shift applied to this entry and all later ones
checkLoop(b, fl, i) ==
  IF i > Len(fl) THEN fl
  ELSE IF getWordAt(b, fl[i].start) = fl[i].id /\ ~fl[i].nan
    THEN checkLoop(b, [fl EXCEPT ![i].found = "true"], i + 1)
  ELSE IF getWordAt(b, fl[i].start - 1) = fl[i].id /\ ~fl[i].nan
    THEN checkLoop(b,
           [j \in 1..Len(fl) |->
              IF j = i THEN [fl[j] EXCEPT !.found = "true", !.start = fl[j].start - 1]
              ELSE IF j > i THEN [fl[j] EXCEPT !.start = fl[j].start - 1]
              ELSE fl[j]],
           i + 1)
  ELSE checkLoop(b, [fl EXCEPT ![i].found = "false"], i + 1)

checkFlights(b, fl) == checkLoop(b, fl, 1)

(***************************************************************************)
(* Sensor mapping table: the add(...) calls of initArraysForHeaders, in    *)
(* insertion order.  scaleVal 0 stands for "fUnit === 0 ? 10 : 1".         *)
(***************************************************************************)
H(sensorName, cfgBytIdx, cfgBitIdx, hdrStr, scaleVal, mLo, mLoBit, mHi, mHiBit) ==
  [sensorName |-> sensorName, cfgBytIdx |-> cfgBytIdx, cfgBitIdx |-> cfgBitIdx,
   hdrStr |-> hdrStr, scaleVal |-> scaleVal, mLoBytIdx |-> mLo, mLoBitIdx |-> mLoBit,
   mHiBytIdx |-> mHi, mHiBitIdx |-> mHiBit]

HeaderTable == <<
    H("Left EGT 1", 0, 2, <<"E","1">>, 1, 0, 0, 6, 0),
    H("Left EGT 2", 0, 3, <<"E","2">>, 1, 0, 1, 6, 1),
    H("Left EGT 3", 0, 4, <<"E","3">>, 1, 0, 2, 6, 2),
    H("Left EGT 4", 0, 5, <<"E","4">>, 1, 0, 3, 6, 3),
    H("Left CHT 1", 0, 11, <<"C","1">>, 1, 1, 0, -1, -1),
    H("Left CHT 2", 0, 12, <<"C","2">>, 1, 1, 1, -1, -1),
    H("Left CHT 3", 0, 13, <<"C","3">>, 1, 1, 2, -1, -1),
    H("Left CHT 4", 0, 14, <<"C","4">>, 1, 1, 3, -1, -1),
    H("OAT", 1, 9, <<"O","A","T">>, 1, 2, 5, -1, -1),
    H("Left DIF", 0, 0, <<"D","I","F">>, 1, -1, -1, -1, -1),
    H("Left CLD", 0, 0, <<"C","L","D">>, 1, 1, 6, -1, -1),
    H("Left MAP", 1, 14, <<"M","A","P">>, 10, 5, 0, -1, -1),
    H("Left RPM", 1, 10, <<"R","P","M">>, 1, 5, 1, 5, 2),
    H("Left HP", 1, 10, <<"H","P">>, 1, 3, 6, -1, -1),
    H("Left FF", 1, 11, <<"F","F">>, 0, 2, 7, -1, -1),
    H("Left FF2", 3, 5, <<"F","F","2">>, 0, 5, 6, -1, -1),
    H("Left FP", 1, 15, <<"F","P">>, 10, 8, 5, -1, -1),
    H("Left OILP", 1, 13, <<"O","I","L","P">>, 1, 2, 1, -1, -1),
    H("BAT", 0, 0, <<"B","A","T">>, 10, 2, 4, -1, -1),
    H("AMP", 0, 1, <<"A","M","P">>, 1, 8, 0, -1, -1),
    H("Left OILT", 1, 4, <<"O","I","L","T">>, 1, 1, 7, -1, -1),
    H("Left USD", 1, 11, <<"U","S","D">>, 0, 2, 6, -1, -1),
    H("Left USD2", 3, 5, <<"U","S","D","2">>, 0, 5, 7, -1, -1),
    H("Left FL", 2, 3, <<"R","F","L">>, 0, 8, 3, -1, -1),
    H("Left FL2", 2, 4, <<"L","F","L">>, 0, 8, 4, -1, -1),
    H("Left HRS", 0, 0, <<"H","R","S">>, 10, 9, 6, 9, 7),
    H("SPD", 4, 5, <<"S","P","D">>, 1, 10, 5, -1, -1),
    H("ALT", 4, 6, <<"A","L","T">>, 1, 10, 3, -1, -1),
    H("LAT", 4, 3, <<"L","A","T">>, 1, 10, 7, 10, 2),
    H("LNG", 4, 4, <<"L","N","G">>, 1, 10, 6, 10, 1),
    H("MARK", 0, 0, <<"M","A","R","K">>, 1, 2, 0, -1, -1) >>

headerCount == Len(HeaderTable)

S_DATE == <<"D","A","T","E">>
S_TIME == <<"T","I","M","E">>
S_MARK == <<"M","A","R","K">>
S_LAT == <<"L","A","T">>
S_LNG == <<"L","N","G">>
S_SPD == <<"S","P","D">>
S_ALT == <<"A","L","T">>
S_HRS == <<"H","R","S">>
S_HP == <<"H","P">>
S_DIF == <<"D","I","F">>
S_LDIF == <<"L","D","I","F">>
S_NA == <<"N","A">>

(***************************************************************************)
(* The decoder instance.  self holds the fields of class Decomp; size and  *)
(* fltCnt are always the lengths of bin and flights in the code.           *)
(***************************************************************************)
VARIABLES
  self,     \* the fields of the Decomp instance
  pc,       \* "new" before parseFile, "idle" between calls, "loop" inside
            \* the while loop of decodeFlightToRows, "hung" inside a
            \* summarizeFlights call that does not return
  calls,    \* API calls made after parseFile
  loop,     \* the locals of the running decodeFlightToRows call
  result,   \* what the last completed call returned or threw
  rr,       \* the locals of the last readRecord call: flg0, flg1, mult, savePtr
  run,      \* the repeat rows returned in a row for one mult record
  firstOut, \* per flight id, the first {headers, rows} decodeFlightToRows returned
  tick      \* the parity of the loop steps taken by decodeFlightToRows

vars == <<self, pc, calls, loop, result, rr, run, firstOut, tick>>

NoByte == [value |-> 0, sign |-> FALSE, isValid |-> FALSE]

\* the field initialisers of class Decomp
NewDecomp ==
  [bin |-> <<>>, ptr |-> 0, flights |-> <<>>, model |-> <<>>, buildNum |-> <<>>,
   edmType |-> FALSE, edmTypeActual |-> FALSE, twin |-> FALSE, fUnit |-> 0,
   protocolId |-> 0, cfgWord |-> <<0, 0, 0, 0, 0>>,
   dataBytes |-> [g \in 0..15 |-> [b \in 0..7 |-> NoByte]],
   headers |-> <<>>, headerIndex |-> <<>>, recStr |-> <<>>, recCnt |-> 0,
   endOfFlight |-> 0, currFltIdx |-> -1, recordInterval |-> 0,
   originalInterval |-> 0, multCnt |-> 0, firstHOBRec |-> FALSE,
   lastWasRepeat |-> FALSE, lastLatWasNA |-> FALSE, lastLngWasNA |-> FALSE,
   scanStop |-> "none"]

\* parseFile: scan the metadata, then probe the flight offsets.  scanStop is
\* not a field of the class: it records how parseDollarRecords left its loop
parseFile(s, buf) ==
  LET m == parseDollarRecords(buf)
  IN [s EXCEPT !.bin = buf, !.ptr = m.ptr,
               !.flights = checkFlights(buf, m.flights),
               !.model = m.model, !.buildNum = m.buildNum, !.edmType = m.edmType,
               !.twin = m.twin, !.fUnit = m.fUnit, !.protocolId = m.protocolId,
               !.scanStop = m.stop]

\* listFlights
listFlights(s) == s.flights

(***************************************************************************)
(* Flight-header parser.                                                   *)
(***************************************************************************)
\* Math.trunc(a / d) for d > 0
TruncDiv(a, d) == IF a >= 0 THEN a \div d ELSE -((-a) \div d)

\* new Date(text) accepts these fields (day numbers past the month's end roll
\* over in the engine; the generated headers keep the day within 1..28)
DateFieldsValid(mm, dd, hh, mn, ss) ==
  mm \in 1..12 /\ dd \in 1..31 /\ hh \in 0..23 /\ mn \in 0..59 /\ ss \in 0..59

S_InvalidDate == <<"I","n","v","a","l","i","d"," ","D","a","t","e">>

\* toLocaleDateString('en-US'): M/D/YYYY without padding
LocaleDate(y, m, dd) == NatStr(m) \o <<"/">> \o NatStr(dd) \o <<"/">> \o NatStr(y)

\* a starting coordinate stored whatever the read returned
StoresStart_Always(r) == TRUE

\* lines 689-692: Number.isFinite(lat0), the read did not underflow
StoresStart(r) == ~r.nan

scanFlightHeader(s, fltIdx) ==
  LET b == s.bin
      id == getWord(b, s.ptr)
  IN IF id.v # s.flights[fltIdx + 1].id \/ s.flights[fltIdx + 1].nan
       THEN [s EXCEPT !.ptr = id.p]
       ELSE
         LET c0 == getWord(b, id.p)
             c1 == getWord(b, c0.p)
             eta == s.edmType
             c2 == getWord(b, c1.p)
             c3 == getWord(b, c2.p)
             c4 == getWord(b, c3.p)
             myModel == ParseIntOr0(s.model)
             myBuild == ParseSignedOr0(s.buildNum)
             seeded == eta /\ myModel = 900 /\ myBuild >= 1000
                       /\ BitAnd(c4.v, 120) # 0
             lat0 == getLong(b, c4.p)
             lng0 == getLong(b, lat0.p)
             p1 == IF ~eta THEN c1.p ELSE IF seeded THEN lng0.p ELSE c4.p
             fuelunit == getByte(b, p1)
             horsepower == getByte(b, fuelunit.p)
             ri == getWord(b, horsepower.p)
             dw == getWord(b, ri.p)
             DDn == BitAnd(dw.v, 31)
             dw1 == TruncDiv(dw.v, 32)
             MMn == BitAnd(dw1, 15)
             YYn == TruncDiv(dw1, 16)
             YY == lpad(IntStr(YYn), 2)
             yyFull == IF YYn >= 75 THEN <<"1","9">> \o YY ELSE <<"2","0">> \o YY
             tw == getWord(b, dw.p)
             SSn == BitAnd(tw.v, 31) * 2
             tw1 == TruncDiv(tw.v, 32)
             Mnn == BitAnd(tw1, 63)
             HHn == TruncDiv(tw1, 64)
             hms == lpad(IntStr(HHn), 2) \o <<":">> \o lpad(IntStr(Mnn), 2)
                    \o <<":">> \o lpad(IntStr(SSn), 2)
             ck == getByte(b, tw.p)
             valid == DateFieldsValid(MMn, DDn, HHn, Mnn, SSn)
             f0 == s.flights[fltIdx + 1]
             f1 == [f0 EXCEPT
                      !.hasLat = IF seeded /\ StoresStart(lat0) THEN TRUE ELSE @,
                      !.latitudeStart = IF seeded /\ StoresStart(lat0) THEN lat0.v ELSE @,
                      !.hasLng = IF seeded /\ StoresStart(lng0) THEN TRUE ELSE @,
                      !.longitudeStart = IF seeded /\ StoresStart(lng0) THEN lng0.v ELSE @,
                      !.interval = ri.v,
                      !.date = IF valid THEN LocaleDate(DigitsVal(yyFull, 0), MMn, DDn)
                               ELSE S_InvalidDate,
                      !.time = hms]
         IN [s EXCEPT !.ptr = ck.p,
                      !.cfgWord = IF eta THEN <<c0.v, c1.v, c2.v, c3.v, c4.v>>
                                  ELSE <<c0.v, c1.v, 0, 0, 0>>,
                      !.edmTypeActual = eta,
                      !.recordInterval = ri.v,
                      !.originalInterval = ri.v,
                      !.flights = [s.flights EXCEPT ![fltIdx + 1] = f1]]

(***************************************************************************)
(* initArraysForHeaders and openFlight.                                    *)
(***************************************************************************)
\* InitialTotal without the header seed
InitialTotal_NoSeed(s, i) ==
  IF HeaderTable[i].hdrStr = S_HP /\ ~s.twin THEN 0 ELSE 240

\* the running total a channel starts a flight with
InitialTotal(s, i) ==
  LET h == HeaderTable[i].hdrStr
      f == s.flights[s.currFltIdx + 1]
  IN IF h = S_LAT /\ s.currFltIdx >= 0 /\ f.hasLat THEN f.latitudeStart
     ELSE IF h = S_LNG /\ s.currFltIdx >= 0 /\ f.hasLng THEN f.longitudeStart
     ELSE IF h = S_HP /\ ~s.twin THEN 0
     ELSE 240

\* initArraysForHeaders keeping the totals of a table built before
initArraysForHeaders_KeepTotals(s) ==
  IF s.headers # <<>> THEN s
  ELSE [s EXCEPT !.headers = [i \in 1..headerCount |-> InitialTotal(s, i)]]

\* initArraysForHeaders: the table is rebuilt, every running total reset
initArraysForHeaders(s) ==
  [s EXCEPT !.headers = [i \in 1..headerCount |-> InitialTotal(s, i)]]

\* Enabled testing the first config word for every descriptor
Enabled_Word0(cfg, i) == TestMask(cfg[1], Pow2(HeaderTable[i].cfgBitIdx))

\* (cfgWord[H.cfgBytIdx] & bitMask[H.cfgBitIdx]) !== 0
Enabled(cfg, i) ==
  TestMask(cfg[HeaderTable[i].cfgBytIdx + 1], Pow2(HeaderTable[i].cfgBitIdx))

RECURSIVE EnabledFrom(_, _)
\* the table indexes openFlight stores in headerIndex, in table order
EnabledFrom(cfg, i) ==
  IF i > headerCount THEN <<>>
  ELSE IF Enabled(cfg, i) THEN <<i>> \o EnabledFrom(cfg, i + 1)
  ELSE EnabledFrom(cfg, i + 1)

RECURSIVE ColHeaderStr(_, _)
\* 'DATE,TIME' followed by ',' + title for each enabled entry
ColHeaderStr(idxs, k) ==
  IF k > Len(idxs) THEN <<>>
  ELSE <<",">> \o HeaderTable[idxs[k]].hdrStr \o ColHeaderStr(idxs, k + 1)

\* FindFlight finding nothing on a device other than an EDM900 / EDM930
FindFlight_KnownModel(s, flightId) ==
  LET hits == {i \in 1..Len(s.flights) :
                 ~s.flights[i].nan /\ s.flights[i].id = flightId
                 /\ s.model \in {<<"9","0","0">>, <<"9","3","0">>}}
  IN IF hits = {} THEN -1 ELSE (CHOOSE i \in hits : \A j \in hits : i <= j) - 1

\* the index of the first directory entry with this id, -1 when there is none
FindFlight(s, flightId) ==
  LET hits == {i \in 1..Len(s.flights) :
                 ~s.flights[i].nan /\ s.flights[i].id = flightId}
  IN IF hits = {} THEN -1 ELSE (CHOOSE i \in hits : \A j \in hits : i <= j) - 1

\* lines 109-113: the selected entry, the cursor at its block
selectFlight(s, idx) ==
  [s EXCEPT !.currFltIdx = idx,
            !.ptr = s.flights[idx + 1].start,
            !.endOfFlight = s.flights[idx + 1].start + s.flights[idx + 1].size]

\* lines 117-134: headerIndex and the header array for the enabled entries idxs
openHeaders(s, idxs) ==
  [st |-> [s EXCEPT !.headerIndex = idxs, !.recCnt = 0],
   threw |-> "",
   headers |-> Split(S_DATE \o <<",">> \o S_TIME \o ColHeaderStr(idxs, 1), ",")]

\* lines 112-115: the header is parsed, the table rebuilt
openAt(s, idx) == initArraysForHeaders(scanFlightHeader(selectFlight(s, idx), idx))

\* the enabled entries are taken from the config words the header parser stored
openSelected(s) == openHeaders(s, EnabledFrom(s.cfgWord, 1))

\* openFlight: the new instance state, and the header array or the exception
openFlight(s, flightId) ==
  IF FindFlight(s, flightId) < 0
    THEN [st |-> [s EXCEPT !.currFltIdx = -1], threw |-> "Flight Not Found",
          headers |-> <<>>]
    ELSE openSelected(openAt(s, FindFlight(s, flightId)))

(***************************************************************************)
(* Record decoder: the byte-level part of readRecord.                      *)
(***************************************************************************)
RECURSIVE readCtl(_, _, _, _, _)
\* control bytes: one for each set bit i of flg0, in ascending i
readCtl(b, p, flg0, i, acc) ==
  IF i > 15 THEN [ctl |-> acc, p |-> p]
  ELSE IF TestMask(flg0, Pow2(i))
    THEN LET r == getByte(b, p)
         IN readCtl(b, r.p, flg0, i + 1,
                    [acc EXCEPT ![i] = [exist |-> TRUE, ctlIdx |-> r.v, sgnIdx |-> 0]])
  ELSE readCtl(b, p, flg0, i + 1, acc)

RECURSIVE readSgn_All(_, _, _, _, _)
\* readSgn with a sign byte for groups 6 and 7 too
readSgn_All(b, p, flg0, i, acc) ==
  IF i > 15 THEN [ctl |-> acc, p |-> p]
  ELSE IF TestMask(flg0, Pow2(i))
    THEN LET r == getByte(b, p)
         IN readSgn_All(b, r.p, flg0, i + 1, [acc EXCEPT ![i].sgnIdx = r.v])
  ELSE readSgn_All(b, p, flg0, i + 1, acc)

RECURSIVE readSgn(_, _, _, _, _)
\* sign bytes: one for each set bit i of flg0 other than 6 and 7
readSgn(b, p, flg0, i, acc) ==
  IF i > 15 THEN [ctl |-> acc, p |-> p]
  ELSE IF (i < 6 \/ i > 7) /\ TestMask(flg0, Pow2(i))
    THEN LET r == getByte(b, p)
         IN readSgn(b, r.p, flg0, i + 1, [acc EXCEPT ![i].sgnIdx = r.v])
  ELSE readSgn(b, p, flg0, i + 1, acc)

NoCtrl == [i \in 0..15 |-> [exist |-> FALSE, ctlIdx |-> 0, sgnIdx |-> 0]]

\* the factor a data byte at (byt, b) is multiplied with
ScaleAt(byt, b) ==
  IF byt = 5 /\ b \in {2, 4} THEN 256
  ELSE IF byt = 6 \/ byt = 7 THEN 256
  ELSE IF byt = 10 /\ b \in {1, 2} THEN 256
  ELSE IF byt \in {9, 12} /\ b \in {4, 5, 7} THEN 256
  ELSE IF byt \in {13, 14} /\ b \in {4, 5, 6} THEN 256
  ELSE 1

\* the mask tested against the sign byte for the data byte at (byt, b)
SgnMaskAt(byt, b) ==
  IF byt = 5 /\ b \in {2, 4} THEN Pow2(b) \div 2
  ELSE IF byt = 6 \/ byt = 7 THEN Pow2(b)
  ELSE IF byt = 10 /\ b \in {1, 2} THEN Pow2(b) * 32
  ELSE IF byt \in {9, 12} /\ b \in {4, 5} THEN Pow2(b) \div 16
  ELSE IF byt \in {9, 12} /\ b = 7 THEN Pow2(b)
  ELSE IF byt \in {13, 14} /\ b \in {4, 5, 6} THEN Pow2(b) \div 16
  ELSE Pow2(b)

\* SgnIdxFor with every group using its own sign byte
SgnIdxFor_Own(ctl, byt) == ctl[byt].sgnIdx

\* the sign byte group byt uses
SgnIdxFor(ctl, byt) ==
  IF byt = 6 THEN ctl[0].sgnIdx
  ELSE IF byt = 7 THEN ctl[3].sgnIdx
  ELSE ctl[byt].sgnIdx

\* the (byt, b) pairs, numbered k = byt * 8 + b, a record carries a data byte for
DataSlots(ctl) ==
  {k \in 0..127 : ctl[k \div 8].exist /\ TestMask(ctl[k \div 8].ctlIdx, Pow2(k % 8))}

\* readData with the validity of every slot the record does not carry reset
readData_ResetAbsent(b, p, ctl, db) ==
  LET slots == DataSlots(ctl)
      At(k) == getByte(b, p + Cardinality({j \in slots : j < k})).v
  IN [db |-> [byt \in 0..15 |-> [bi \in 0..7 |->
               IF (byt * 8 + bi) \in slots
                 THEN [value |-> At(byt * 8 + bi) * ScaleAt(byt, bi),
                       sign |-> TestMask(SgnIdxFor(ctl, byt), SgnMaskAt(byt, bi)),
                       isValid |-> At(byt * 8 + bi) # 0]
                 ELSE [db[byt][bi] EXCEPT !.isValid = FALSE]]],
      p |-> IF p + Cardinality(slots) <= Len(b) THEN p + Cardinality(slots)
            ELSE IF p >= Len(b) THEN p ELSE Len(b)]

\* data bytes: read in ascending (byt, b), one byte for each slot present
readData(b, p, ctl, db) ==
  LET slots == DataSlots(ctl)
      At(k) == getByte(b, p + Cardinality({j \in slots : j < k})).v
  IN [db |-> [byt \in 0..15 |-> [bi \in 0..7 |->
               IF (byt * 8 + bi) \in slots
                 THEN [value |-> At(byt * 8 + bi) * ScaleAt(byt, bi),
                       sign |-> TestMask(SgnIdxFor(ctl, byt), SgnMaskAt(byt, bi)),
                       isValid |-> At(byt * 8 + bi) # 0]
                 ELSE db[byt][bi]]],
      \* getByte stops moving the cursor at the end of the buffer
      p |-> IF p + Cardinality(slots) <= Len(b) THEN p + Cardinality(slots)
            ELSE IF p >= Len(b) THEN p ELSE Len(b)]

\* every value cleared, validity and sign kept
ClearValues(db) ==
  [g \in 0..15 |-> [bi \in 0..7 |-> [db[g][bi] EXCEPT !.value = 0]]]

(***************************************************************************)
(* Value shaper: the loop of readRecord that builds recStr.                *)
(***************************************************************************)
SeqMax(q) == CHOOSE x \in {q[i] : i \in 1..Len(q)} : \A j \in 1..Len(q) : q[j] <= x
SeqMin(q) == CHOOSE x \in {q[i] : i \in 1..Len(q)} : \A j \in 1..Len(q) : x <= q[j]

\* the signed delta a record contributes to table entry idx
DeltaOf(db, idx, firstHOBRec) ==
  LET Hd == HeaderTable[idx]
      lo == db[Hd.mLoBytIdx][Hd.mLoBitIdx]
      hasHi == Hd.mHiBytIdx # -1
      hi == db[Hd.mHiBytIdx][Hd.mHiBitIdx]
  IN IF Hd.hdrStr = S_HRS /\ lo.sign /\ firstHOBRec
       THEN -(lo.value + (IF hasHi THEN hi.value ELSE 0))
       ELSE LET v0 == IF lo.sign THEN -lo.value ELSE lo.value
            IN IF hasHi THEN (IF hi.sign THEN v0 - hi.value ELSE v0 + hi.value)
               ELSE v0

\* LAT / LNG text of a running total
CoordStr(intVal, isLng) ==
  LET dir == IF intVal < 0 THEN 1 ELSE 0
      t0 == IF intVal < 0 THEN -intVal ELSE intVal
      deg == t0 \div 6000
      temp == t0 - deg * 6000
      head == IF isLng
                THEN <<IF dir # 1 THEN "E" ELSE "W">> \o lpad(NatStr(deg), 3)
                ELSE <<IF dir # 1 THEN "N" ELSE "S">> \o lpad(NatStr(deg), 2)
  IN head \o <<".">> \o lpad(NatStr(temp \div 100), 2)
          \o <<".">> \o lpad(NatStr(temp % 100), 2)

\* the MARK glyph of intVal & 7
MarkStr(intVal) ==
  LET c == intVal % 8
  IN CASE c = 1 -> <<"X">> [] c = 4 -> <<"<">> [] c = 5 -> <<">">>
       [] c = 2 -> <<"[">> [] c = 3 -> <<"]">> [] OTHER -> <<>>

\* MarkInterval that leaves the interval alone
MarkInterval_Keep(intVal, cur, orig) == cur

\* MarkInterval that knows '<' and '>' only
MarkInterval_AngleOnly(intVal, cur, orig) ==
  LET c == intVal % 8
  IN IF c = 4 THEN 1 ELSE IF c = 5 THEN orig ELSE cur

\* the recordInterval after a MARK value was formatted
MarkInterval(intVal, cur, orig) ==
  LET c == intVal % 8
  IN IF c \in {4, 2} THEN 1 ELSE IF c \in {5, 3} THEN orig ELSE cur

\* the running total of table entry idx after the record's delta
TotalOf(s, idx, st) ==
  IF HeaderTable[idx].mLoBytIdx # -1
    THEN st.headers[idx] + DeltaOf(s.dataBytes, idx, s.firstHOBRec)
    ELSE st.headers[idx]

\* the text of a value that is not NA
DataStr(dataName, intVal, scale) ==
  IF scale = 1
    THEN (IF dataName = S_LNG THEN CoordStr(intVal, TRUE)
          ELSE IF dataName = S_LAT THEN CoordStr(intVal, FALSE)
          ELSE IF dataName = S_MARK THEN MarkStr(intVal)
          ELSE vbIntStr(intVal))
    ELSE vbFloat1(intVal, scale)

\* IsNA looking at the low byte only
IsNA_LowOnly(lbValid, hasHi, hbValid) == ~lbValid

\* lines 305-328: NA is appended when the low byte is invalid and there is
\* no high byte or the high byte is invalid too
IsNA(lbValid, hasHi, hbValid) == ~lbValid /\ (~hasHi \/ ~hbValid)

\* one iteration of the value loop for table entry Hd = HeaderTable[idx],
\* total its running total after this record
shapeOne(s, idx, Hd, st, total) ==
  LET dataName == Hd.hdrStr
      lb == Hd.mLoBytIdx
      hb == Hd.mHiBytIdx
      intVal == IF lb # -1 THEN total ELSE 0
      \* scaleVal 0 stands for "fUnit === 0 ? 10 : 1"
      scale == IF Hd.scaleVal = 0 THEN (IF s.fUnit = 0 THEN 10 ELSE 1) ELSE Hd.scaleVal
      lbValid == IF lb # -1 THEN s.dataBytes[lb][Hd.mLoBitIdx].isValid ELSE TRUE
      hbValid == IF hb # -1 THEN s.dataBytes[hb][Hd.mHiBitIdx].isValid ELSE TRUE
      isNA == IsNA(lbValid, hb # -1, hbValid)
  IN IF dataName = S_DIF \/ dataName = S_LDIF
       THEN [st EXCEPT
               !.headers[idx] = total,
               !.recStr = @ \o <<",">> \o
                  vbIntStr(IF Len(st.egtVals) > 0
                             THEN SeqMax(st.egtVals) - SeqMin(st.egtVals) ELSE 0)]
       ELSE [st EXCEPT
               !.headers[idx] = total,
               !.recStr = @ \o <<",">> \o
                  (IF isNA THEN S_NA ELSE DataStr(dataName, intVal, scale)),
               !.recordInterval = IF scale = 1 /\ dataName = S_MARK
                                    THEN MarkInterval(intVal, @, s.originalInterval)
                                    ELSE @,
               !.lastLatWasNA = IF dataName = S_LAT THEN isNA ELSE @,
               !.lastLngWasNA = IF dataName = S_LNG THEN isNA ELSE @,
               !.egtVals = IF Len(dataName) = 2 /\ dataName[1] = "E" /\ lbValid
                             THEN Append(@, intVal) ELSE @]

\* the k-th enabled entry shaped into st
shapeAt(s, idx, st) == shapeOne(s, idx, HeaderTable[idx], st, TotalOf(s, idx, st))

RECURSIVE shapeLoop(_, _, _)
\* st: [headers, recStr, egtVals, recordInterval, lastLatWasNA, lastLngWasNA]
shapeLoop(s, k, st) ==
  IF k > Len(s.headerIndex) THEN st
  ELSE shapeLoop(s, k + 1, shapeAt(s, s.headerIndex[k], st))

(***************************************************************************)
(* readRecord.  ret.kind is "throw", "eos" (undefined returned), "repeat"  *)
(* or "row"; ret.text is the returned string; flg0, flg1, mult and savePtr *)
(* are the locals of the call (-2 when the call did not read them).        *)
(***************************************************************************)
NotRead == 0 - 2

\* FlagsOk without the comparison of the two flag values
FlagsOk_NoCompare(flg0, flg1) == flg0 # -1 /\ flg1 # -1

\* lines 150-151: the record is read on only when this holds
FlagsOk(flg0, flg1) == flg0 = flg1 /\ flg0 # -1 /\ flg1 # -1

\* lines 141-153: flg0, flg1 and mult as read at the cursor; flgEnd is the
\* cursor after the flags, p the cursor after mult
readFlags(s) ==
  LET f0 == IF s.edmTypeActual THEN getWord(s.bin, s.ptr) ELSE getByte(s.bin, s.ptr)
      f1 == IF s.edmTypeActual THEN getWord(s.bin, f0.p) ELSE getByte(s.bin, f0.p)
      m == getByte(s.bin, f1.p)
  IN [flg0 |-> f0.v, flg1 |-> f1.v, flgEnd |-> f1.p, mult |-> m.v, p |-> m.p]

\* lines 154-155: a non-zero mult loads multCnt when it is 0
MultCnt(s, mult) == IF mult # 0 /\ s.multCnt = 0 THEN mult ELSE s.multCnt

\* decodeBytes with the checksum enforced: a record whose checksum byte is
\* not 0 loses its data bytes
decodeBytes_Checked(s, fl) ==
  LET c1 == readCtl(s.bin, fl.p, fl.flg0, 0, NoCtrl)
      c2 == readSgn(s.bin, c1.p, fl.flg0, 0, c1.ctl)
      dd == readData(s.bin, c2.p, c2.ctl, ClearValues(s.dataBytes))
      ck == getByte(s.bin, dd.p)
  IN [s EXCEPT !.ptr = ck.p, !.multCnt = MultCnt(s, fl.mult), !.lastWasRepeat = FALSE,
               !.dataBytes = IF ck.v = 0 THEN dd.db ELSE ClearValues(s.dataBytes)]

\* lines 164-222: control, sign and data bytes and the checksum are read
decodeBytes(s, fl) ==
  LET c1 == readCtl(s.bin, fl.p, fl.flg0, 0, NoCtrl)
      c2 == readSgn(s.bin, c1.p, fl.flg0, 0, c1.ctl)
      dd == readData(s.bin, c2.p, c2.ctl, ClearValues(s.dataBytes))
      ck == getByte(s.bin, dd.p)
  IN [s EXCEPT !.ptr = ck.p, !.multCnt = MultCnt(s, fl.mult), !.lastWasRepeat = FALSE,
               !.dataBytes = dd.db]

\* lines 224-334: the value loop over the enabled entries
shapeRecord(s) ==
  shapeLoop(s, 1,
    [headers |-> s.headers, recStr |-> <<>>, egtVals |-> <<>>,
     recordInterval |-> s.recordInterval, lastLatWasNA |-> s.lastLatWasNA,
     lastLngWasNA |-> s.lastLngWasNA])

\* what the value loop leaves in the instance
storeShape(s, sh) ==
  [s EXCEPT !.headers = sh.headers, !.recStr = sh.recStr,
            !.recordInterval = sh.recordInterval,
            !.lastLatWasNA = sh.lastLatWasNA, !.lastLngWasNA = sh.lastLngWasNA]

\* lines 335-337: the decoded record as returned
rowResult(s, dateString, fl, savePtr) ==
  [st |-> s, kind |-> "row", text |-> dateString \o s.recStr,
   flg0 |-> fl.flg0, flg1 |-> fl.flg1, mult |-> fl.mult, savePtr |-> savePtr]

\* the record whose flags and mult are fl
readBody(s, dateString, fl) ==
  IF ~FlagsOk(fl.flg0, fl.flg1)
    THEN [st |-> [s EXCEPT !.ptr = fl.flgEnd], kind |-> "eos", text |-> <<>>,
          flg0 |-> fl.flg0, flg1 |-> fl.flg1, mult |-> NotRead, savePtr |-> s.ptr]
  ELSE IF fl.mult # 0 /\ MultCnt(s, fl.mult) > 0
    THEN [st |-> [s EXCEPT !.ptr = s.ptr, !.multCnt = MultCnt(s, fl.mult) - 1,
                           !.lastWasRepeat = TRUE],
          kind |-> "repeat", text |-> dateString \o s.recStr,
          flg0 |-> fl.flg0, flg1 |-> fl.flg1, mult |-> fl.mult, savePtr |-> s.ptr]
  ELSE rowResult(storeShape(decodeBytes(s, fl), shapeRecord(decodeBytes(s, fl))),
                 dateString, fl, s.ptr)

readRecord(s, dateString) ==
  IF s.currFltIdx < 0
    THEN [st |-> s, kind |-> "throw", text |-> <<>>, flg0 |-> NotRead,
          flg1 |-> NotRead, mult |-> NotRead, savePtr |-> s.ptr]
  ELSE IF s.ptr >= s.endOfFlight - 4
    THEN [st |-> s, kind |-> "eos", text |-> <<>>, flg0 |-> NotRead,
          flg1 |-> NotRead, mult |-> NotRead, savePtr |-> s.ptr]
  ELSE readBody(s, dateString, readFlags(s))

(***************************************************************************)
(* Dates.  currentDate is [valid, y, m, d, t]: t seconds after midnight of *)
(* y-m-d, in a time zone without daylight saving.                          *)
(***************************************************************************)
IsLeap(y) == (y % 4 = 0 /\ y % 100 # 0) \/ y % 400 = 0

DaysIn(y, m) == IF m = 2 THEN (IF IsLeap(y) THEN 29 ELSE 28)
                ELSE IF m \in {4, 6, 9, 11} THEN 30 ELSE 31

RECURSIVE NormDate(_)
\* the same instant with 0 <= t < 86400
NormDate(dt) ==
  IF ~dt.valid THEN dt
  ELSE IF dt.t >= 86400
    THEN NormDate(IF dt.d < DaysIn(dt.y, dt.m)
                    THEN [dt EXCEPT !.d = @ + 1, !.t = @ - 86400]
                  ELSE IF dt.m < 12
                    THEN [dt EXCEPT !.m = @ + 1, !.d = 1, !.t = @ - 86400]
                  ELSE [dt EXCEPT !.y = @ + 1, !.m = 1, !.d = 1, !.t = @ - 86400])
  ELSE IF dt.t < 0
    THEN NormDate(IF dt.d > 1
                    THEN [dt EXCEPT !.d = @ - 1, !.t = @ + 86400]
                  ELSE IF dt.m > 1
                    THEN [dt EXCEPT !.m = @ - 1, !.d = DaysIn(dt.y, dt.m - 1),
                                    !.t = @ + 86400]
                  ELSE [dt EXCEPT !.y = @ - 1, !.m = 12, !.d = 31, !.t = @ + 86400])
  ELSE dt

InvalidDate == [valid |-> FALSE, y |-> 0, m |-> 0, d |-> 0, t |-> 0]

\* new Date(`${date} ${time}`) for the texts scanFlightHeader stores
ParseDate(date, time) ==
  LET dp == Split(date, "/")
      tp == Split(time, ":")
  IN IF Len(dp) = 3 /\ Len(tp) = 3
        /\ (\A i \in 1..3 : dp[i] # <<>> /\ AllDigits(dp[i]))
        /\ (\A i \in 1..3 : tp[i] # <<>> /\ AllDigits(tp[i]))
        /\ DateFieldsValid(DigitsVal(dp[1], 0), DigitsVal(dp[2], 0),
                           DigitsVal(tp[1], 0), DigitsVal(tp[2], 0),
                           DigitsVal(tp[3], 0))
       THEN NormDate([valid |-> TRUE, y |-> DigitsVal(dp[3], 0),
                      m |-> DigitsVal(dp[1], 0), d |-> DigitsVal(dp[2], 0),
                      t |-> DigitsVal(tp[1], 0) * 3600 + DigitsVal(tp[2], 0) * 60
                            + DigitsVal(tp[3], 0)])
       ELSE InvalidDate

\* new Date(currentDate.getTime() + recordInterval * 1000)
AddSeconds(dt, n) == NormDate([dt EXCEPT !.t = @ + n])

S_NaN == <<"N","a","N">>

\* `${toLocaleDateString('en-US')} ${hh}:${mm}:${ss}`
DateString(dt) ==
  IF ~dt.valid
    THEN S_InvalidDate \o <<" ">> \o S_NaN \o <<":">> \o S_NaN \o <<":">> \o S_NaN
    ELSE LocaleDate(dt.y, dt.m, dt.d) \o <<" ">>
         \o lpad(NatStr(dt.t \div 3600), 2) \o <<":">>
         \o lpad(NatStr((dt.t \div 60) % 60), 2) \o <<":">>
         \o lpad(NatStr(dt.t % 60), 2)

(***************************************************************************)
(* Row composer: the body of the while loop of decodeFlightToRows and the  *)
(* passes after it.  Array indexes are those of the code (0-based).        *)
(***************************************************************************)
\* indexOf / lastIndexOf on an array or a string: -1 when absent
IndexOf(q, x) ==
  LET hits == {i \in 1..Len(q) : q[i] = x}
  IN IF hits = {} THEN -1 ELSE (CHOOSE i \in hits : \A j \in hits : i <= j) - 1

LastIndexOf(q, x) ==
  LET hits == {i \in 1..Len(q) : q[i] = x}
  IN IF hits = {} THEN -1 ELSE (CHOOSE i \in hits : \A j \in hits : j <= i) - 1

\* String.prototype.substring(a, b) and substring(a): negative arguments are 0
Substring(q, a, b) ==
  LET lo == IF a < 0 THEN 0 ELSE IF a > Len(q) THEN Len(q) ELSE a
      hi == IF b < 0 THEN 0 ELSE IF b > Len(q) THEN Len(q) ELSE b
  IN IF lo <= hi THEN SubSeq(q, lo + 1, hi) ELSE SubSeq(q, hi + 1, lo)

SubstringFrom(q, a) == Substring(q, a, Len(q))

\* FitColumns that pads but never cuts
FitColumns_NoCut(columns, expected) ==
  columns \o [i \in 1..(expected - Len(columns)) |-> <<>>]

\* columns cut or padded with '' to the expected count
FitColumns(columns, expected) ==
  IF Len(columns) > expected THEN SubSeq(columns, 1, expected)
  ELSE columns \o [i \in 1..(expected - Len(columns)) |-> <<>>]

\* SplitRow with the rest of the record kept as one column
SplitRow_Unsplit(rec, headersArray) ==
  LET pos == IndexOf(rec, ",")
      dtPart == Substring(rec, 0, pos)
      space == IndexOf(dtPart, " ")
  IN <<Substring(dtPart, 0, space), SubstringFrom(dtPart, space + 1)>>
     \o FitColumns(<<SubstringFrom(rec, pos + 1)>>, Len(headersArray) - 2)

\* [date, time, ...columns] of a returned record string
SplitRow(rec, headersArray) ==
  LET pos == IndexOf(rec, ",")
      dtPart == Substring(rec, 0, pos)
      rest == SubstringFrom(rec, pos + 1)
      space == IndexOf(dtPart, " ")
      date == Substring(dtPart, 0, space)
      time == SubstringFrom(dtPart, space + 1)
  IN <<date, time>> \o FitColumns(Split(rest, ","), Len(headersArray) - 2)

\* MarkCell that blanks 'NA' only
MarkCell_NoEdge(cur, prevMark) == IF cur = S_NA THEN <<>> ELSE cur

\* the MARK cell after the edge-only rule
MarkCell(cur, prevMark) == IF cur = S_NA \/ cur = prevMark THEN <<>> ELSE cur

\* edge-only MARK: the row and the prevMark after it
SuppressMark(row, headersArray, prevMark) ==
  LET markIdx == LastIndexOf(headersArray, S_MARK)
  IN IF markIdx >= 0
       THEN [row |-> [row EXCEPT ![markIdx + 1] = MarkCell(row[markIdx + 1], prevMark)],
             prevMark |-> IF row[markIdx + 1] = prevMark THEN prevMark
                          ELSE row[markIdx + 1]]
       ELSE [row |-> row, prevMark |-> prevMark]

IsBlank(cell) == cell = S_NA \/ cell = <<>>

\* a repeated row takes LAT, LNG, SPD, ALT from the previous row when blank
RepeatCarry(row, headersArray, rows) ==
  [c \in 1..Len(row) |->
     IF c >= 3
        /\ c - 1 \in {IndexOf(headersArray, S_LAT), IndexOf(headersArray, S_LNG),
                      IndexOf(headersArray, S_SPD), IndexOf(headersArray, S_ALT)}
        /\ IsBlank(row[c]) /\ Len(rows) > 0
       THEN rows[Len(rows)][c] ELSE row[c]]

NoCarry == {S_MARK, S_LAT, S_LNG, S_SPD, S_ALT}

\* CarryForward that fills nothing
CarryForward_None(rows, headersArray, i) == rows

RECURSIVE CarryForward(_, _, _)
\* rows i.. of the carry-forward pass, each row seeing its updated predecessor
CarryForward(rows, headersArray, i) ==
  IF i > Len(rows) THEN rows
  ELSE CarryForward(
         [rows EXCEPT ![i] =
            [c \in 1..Len(rows[i]) |->
               IF c >= 3 /\ (c > Len(headersArray) \/ headersArray[c] \notin NoCarry)
                  /\ IsBlank(rows[i][c])
                 THEN rows[i - 1][c] ELSE rows[i][c]]],
         headersArray, i + 1)

\* a cell that is truthy and not 'NA'
HasValue(cell) == cell # <<>> /\ cell # S_NA

RECURSIVE SmoothGps(_, _, _, _)
\* interior rows i.. of the single-gap pass for the columns cols (1-based)
SmoothGps(rows, cols, i, n) ==
  IF i > n - 1 THEN rows
  ELSE SmoothGps(
         [rows EXCEPT ![i] =
            [c \in 1..Len(rows[i]) |->
               IF c \in cols /\ IsBlank(rows[i][c]) /\ HasValue(rows[i - 1][c])
                  /\ HasValue(rows[i + 1][c])
                 THEN rows[i - 1][c] ELSE rows[i][c]]],
         cols, i + 1, n)

\* the two passes after the loop
PostPasses(rows, headersArray) ==
  LET r1 == CarryForward(rows, headersArray, 2)
      latIdx == IndexOf(headersArray, S_LAT)
      lngIdx == IndexOf(headersArray, S_LNG)
  IN IF latIdx >= 0 /\ lngIdx >= 0
       THEN SmoothGps(r1, {latIdx + 1, lngIdx + 1}, 2, Len(r1))
       ELSE r1

(***************************************************************************)
(* decodeFlightToRows, one loop iteration per step.  loop holds the locals *)
(* of the call: headersArray, rows, rec (what the last readRecord call     *)
(* returned), currentDate, prevMark.  Only the first MaxRows rows are      *)
(* kept: once truncated is set, rows and currentDate are no longer         *)
(* followed, the control flow is.                                          *)
(***************************************************************************)
\* no readRecord call was made
NoRead == [kind |-> "none", text |-> <<>>, flg0 |-> NotRead, flg1 |-> NotRead,
           mult |-> NotRead, savePtr |-> 0]

NoLoop == [id |-> -1, headersArray |-> <<>>, rows |-> <<>>, rec |-> <<>>,
           more |-> FALSE, currentDate |-> InvalidDate, prevMark |-> <<>>,
           truncated |-> FALSE]

\* lines 341-353: the locals of the call after the first readRecord call r
decodeFirst(flightId, headersArray, fl, r) ==
  [st |-> r.st, threw |-> "", rr |-> r,
   loop |-> [id |-> flightId, headersArray |-> headersArray, rows |-> <<>>,
             rec |-> r.text, more |-> r.kind \in {"row", "repeat"},
             currentDate |-> ParseDate(fl.date, fl.time),
             prevMark |-> <<>>, truncated |-> FALSE]]

\* lines 342-351: the opened flight fl, the first record read with its date
decodeOpened(flightId, o, fl) ==
  decodeFirst(flightId, o.headers, fl,
              readRecord([o.st EXCEPT !.firstHOBRec = TRUE],
                         fl.date \o <<" ">> \o fl.time))

\* what openFlight's outcome o starts
decodeAfterOpen(flightId, o) ==
  IF o.threw # ""
    THEN [st |-> o.st, threw |-> o.threw, loop |-> NoLoop, rr |-> NoRead]
    ELSE decodeOpened(flightId, o, o.st.flights[o.st.currFltIdx + 1])

\* lines 341-353: openFlight, the first readRecord call
decodeStart(s, flightId) == decodeAfterOpen(flightId, openFlight(s, flightId))

\* lines 379-397: the repeat carry applied to the row sm holds
carryRow(s, lp, sm) ==
  [row |-> IF s.lastWasRepeat
             THEN RepeatCarry(sm.row, lp.headersArray, lp.rows) ELSE sm.row,
   prevMark |-> sm.prevMark]

\* the row the loop body pushes for loop.rec, and the prevMark after it
composeRow(s, lp) ==
  carryRow(s, lp, SuppressMark(SplitRow(lp.rec, lp.headersArray), lp.headersArray,
                               lp.prevMark))

\* line 404: the date of the next record
NextDate(s, lp) ==
  IF Len(lp.rows) >= MaxRows THEN lp.currentDate
  ELSE AddSeconds(lp.currentDate, s.recordInterval)

\* lines 401-410: the row cr pushed, the locals after the next readRecord call r
decodeRead(lp, cr, nextDate, r) ==
  [st |-> r.st, rr |-> r,
   loop |-> [lp EXCEPT !.rows = IF Len(lp.rows) >= MaxRows THEN @ ELSE Append(@, cr.row),
                       !.truncated = @ \/ Len(lp.rows) >= MaxRows,
                       !.prevMark = cr.prevMark,
                       !.currentDate = nextDate,
                       !.rec = r.text,
                       !.more = r.kind \in {"row", "repeat"}]]

\* the next record read with the date nextDate
decodeNext(s, lp, cr, nextDate) ==
  decodeRead(lp, cr, nextDate,
             readRecord([s EXCEPT !.firstHOBRec = FALSE], DateString(nextDate)))

\* lines 354-411: one iteration of the while loop
decodeStep(s, lp) == decodeNext(s, lp, composeRow(s, lp), NextDate(s, lp))

\* lines 413-439: the passes after the loop and the returned object
decodeFinish(lp) ==
  [headers |-> lp.headersArray, rows |-> PostPasses(lp.rows, lp.headersArray),
   truncated |-> lp.truncated]

(***************************************************************************)
(* decodeFlightToRows as one call.  The while loop is followed for at most *)
(* MaxSteps iterations: kind is "threw" when openFlight threw, "returned"  *)
(* with the returned object when the loop ended, and "running" when the    *)
(* loop was still going after MaxSteps iterations.                         *)
(***************************************************************************)
MaxSteps == MaxRows + 1

RECURSIVE decodeRun(_, _, _)
decodeRunNext(st, n) == decodeRun(st.st, st.loop, n)

\* lines 354-439: the loop from the locals lp on, then the passes after it
decodeRun(s, lp, n) ==
  IF ~lp.more
    THEN [kind |-> "returned", st |-> s, out |-> decodeFinish(lp)]
  ELSE IF n = 0
    THEN [kind |-> "running", st |-> s, out |-> decodeFinish(lp)]
  ELSE decodeRunNext(decodeStep(s, lp), n - 1)

decodeStarted(ds) ==
  IF ds.threw # ""
    THEN [kind |-> "threw", st |-> ds.st, out |-> decodeFinish(NoLoop)]
    ELSE decodeRun(ds.st, ds.loop, MaxSteps)

\* lines 340-440
decodeFlightToRows(s, flightId) == decodeStarted(decodeStart(s, flightId))

(***************************************************************************)
(* summarizeFlights.  Numbers read from cells are kept in tenths, the      *)
(* precision of the one-decimal cells the decoder writes.  Of a summary    *)
(* the fields id, dateTime, timeOff, timeIn, samples and the three tach    *)
(* fields are modelled; hasTach = FALSE stands for the three tach fields   *)
(* being undefined.  headers and rows are not fields of a summary: they    *)
(* keep what decodeFlightToRows returned to the loop body.                 *)
(***************************************************************************)
S_LHRS == <<"L","H","R","S">>

\* Number(v) in tenths, for the texts a cell can hold: digits with an
\* optional sign and an optional fraction of one digit; any other text is
\* not a number
NumberCell(v) ==
  LET neg == v # <<>> /\ Head(v) = "-"
      u == IF neg THEN Tail(v) ELSE v
      dot == IndexOf(u, ".")
      ip == IF dot < 0 THEN u ELSE Substring(u, 0, dot)
      fp == IF dot < 0 THEN <<>> ELSE SubstringFrom(u, dot + 1)
      mag == DigitsVal(ip, 0) * 10 + DigitsVal(fp, 0)
  IN IF ip # <<>> /\ AllDigits(ip) /\ AllDigits(fp) /\ (dot < 0 \/ Len(fp) = 1)
       THEN [nan |-> FALSE, v |-> IF neg THEN -mag ELSE mag]
       ELSE [nan |-> TRUE, v |-> 0]

\* lines 447-451
hrsIdx(headers) ==
  IF IndexOf(headers, S_LHRS) >= 0 THEN IndexOf(headers, S_LHRS)
  ELSE IndexOf(headers, S_HRS)

\* (r[k] || '').trim()
TrimmedCell(r, k) == IF k >= 0 /\ k < Len(r) THEN Trim(r[k + 1]) ELSE <<>>

NoTach == [hasTach |-> FALSE, tachStart |-> 0, tachEnd |-> 0]

\* tachScan with tachStart assigned on every numeric cell
tachScan_Overwrite(rows, k, i, acc) ==
  LET hits == {j \in 1..Len(rows) :
                 TrimmedCell(rows[j], k) \notin {<<>>, S_NA}
                 /\ ~NumberCell(TrimmedCell(rows[j], k)).nan}
      last == CHOOSE j \in hits : \A h \in hits : h <= j
  IN IF hits = {} THEN acc
     ELSE [hasTach |-> TRUE,
           tachStart |-> NumberCell(TrimmedCell(rows[last], k)).v,
           tachEnd |-> NumberCell(TrimmedCell(rows[last], k)).v]

RECURSIVE tachScan(_, _, _, _)
\* lines 455-464: the loop over the rows from row i on
tachScan(rows, k, i, acc) ==
  IF i > Len(rows) THEN acc
  ELSE IF TrimmedCell(rows[i], k) \in {<<>>, S_NA}
          \/ NumberCell(TrimmedCell(rows[i], k)).nan
    THEN tachScan(rows, k, i + 1, acc)
  ELSE tachScan(rows, k, i + 1,
         [hasTach |-> TRUE,
          tachStart |-> IF acc.hasTach THEN acc.tachStart
                        ELSE NumberCell(TrimmedCell(rows[i], k)).v,
          tachEnd |-> NumberCell(TrimmedCell(rows[i], k)).v])

\* Number(x.toFixed(1)) of a difference of two one-decimal values, in tenths
toFixed1(x) == x

\* lines 446-468 and 511-525: the summary of the entry f, given its decode
summaryOf(f, out, tach) ==
  [id |-> f.id, nan |-> f.nan, dateTime |-> f.date,
   timeOff |-> IF Len(out.rows) >= 1 THEN out.rows[1][2] ELSE <<>>,
   timeIn |-> IF Len(out.rows) >= 2 THEN out.rows[Len(out.rows)][2] ELSE <<>>,
   samples |-> Len(out.rows), truncated |-> out.truncated,
   headers |-> out.headers, rows |-> out.rows,
   hasTach |-> tach.hasTach, tachStart |-> tach.tachStart, tachEnd |-> tach.tachEnd,
   tachDuration |-> IF tach.hasTach THEN toFixed1(tach.tachEnd - tach.tachStart) ELSE 0]

summarize(f, out) ==
  summaryOf(f, out,
            IF hrsIdx(out.headers) >= 0
              THEN tachScan(out.rows, hrsIdx(out.headers), 1, NoTach) ELSE NoTach)

\* the flightId argument for the entry f: an id that is not a number equals
\* no id, itself included
NaNId == 0 - 1
IdArg(f) == IF f.nan THEN NaNId ELSE f.id

RECURSIVE summarizeLoop(_, _, _)
\* the decode d of entry i: an exception or a loop that does not end is the
\* outcome of summarizeFlights
summarizeNext(d, i, acc) ==
  IF d.kind # "returned"
    THEN [kind |-> d.kind, st |-> d.st, summaries |-> <<>>]
    ELSE summarizeLoop(d.st, i + 1, Append(acc, summarize(d.st.flights[i], d.out)))

\* lines 445-526: the for loop from entry i on
summarizeLoop(s, i, acc) ==
  IF i > Len(listFlights(s))
    THEN [kind |-> "returned", st |-> s, summaries |-> acc]
    ELSE summarizeNext(decodeFlightToRows(s, IdArg(s.flights[i])), i, acc)

summarizeFlights(s) == summarizeLoop(s, 1, <<>>)

(***************************************************************************)
(* The CSV text of a decoded flight: Array.prototype.join on every line    *)
(* and on the list of lines.                                               *)
(***************************************************************************)
RECURSIVE Join(_, _)
\* q.join(sep) for an array q of strings
Join(q, sep) ==
  IF q = <<>> THEN <<>>
  ELSE IF Len(q) = 1 THEN q[1]
  ELSE q[1] \o <<sep>> \o Join(Tail(q), sep)

\* the header line and one line per row, joined with line feeds
CsvText(headers, rows) ==
  Join(<<Join(headers, ",")>> \o [i \in 1..Len(rows) |-> Join(rows[i], ",")], "\n")

(***************************************************************************)
(* Input files.  A file is the metadata block ($-records, each closed by   *)
(* '*' and four more bytes) followed by the binary flight blocks.          *)
(***************************************************************************)
Word(w) == <<w \div 256, w % 256>>

\* big-endian two's-complement bytes of a signed 32-bit value
Long(v) ==
  LET u == Low31(v)
  IN <<(IF v < 0 THEN 128 ELSE 0) + u \div 16777216, (u \div 65536) % 256,
       (u \div 256) % 256, u % 256>>

\* '*', two checksum characters, CR, LF
Term == <<42, 48, 48, 13, 10>>

DollarRec(text) == Bytes(text) \o Term

RECURSIVE Flatten(_)
Flatten(q) == IF q = <<>> THEN <<>> ELSE Head(q) \o Flatten(Tail(q))

\* one data record: flags (words on EDM-type devices, bytes otherwise), mult,
\* then control, sign and data bytes and the checksum
RecBytes(edm, r) ==
  (IF edm THEN Word(r.flg0) \o Word(r.flg1) ELSE <<r.flg0, r.flg1>>)
  \o <<r.mult>> \o r.body

T_E1 == [flg0 |-> 1, flg1 |-> 1, mult |-> 0, body |-> <<1, 0, 10, 0>>]
T_E1E2 == [flg0 |-> 1, flg1 |-> 1, mult |-> 0, body |-> <<3, 2, 7, 5, 0>>]
T_MarkX == [flg0 |-> 4, flg1 |-> 4, mult |-> 0, body |-> <<1, 0, 1, 0>>]
T_MarkZero == [flg0 |-> 4, flg1 |-> 4, mult |-> 0, body |-> <<1, 0, 0, 0>>]
T_Mult1 == [flg0 |-> 0, flg1 |-> 0, mult |-> 1, body |-> <<>>]
T_Mult2 == [flg0 |-> 0, flg1 |-> 0, mult |-> 2, body |-> <<>>]
T_Empty == [flg0 |-> 0, flg1 |-> 0, mult |-> 0, body |-> <<0>>]
T_Bad == [flg0 |-> 1, flg1 |-> 2, mult |-> 0, body |-> <<0>>]

\* MARK byte 4 ('<' on a total of 240), LNG and LAT low bytes, HRS low byte
T_MarkLt == [flg0 |-> 4, flg1 |-> 4, mult |-> 0, body |-> <<1, 0, 4, 0>>]
T_Gps == [flg0 |-> 1024, flg1 |-> 1024, mult |-> 0, body |-> <<192, 0, 3, 5, 0>>]
T_Hrs == [flg0 |-> 512, flg1 |-> 512, mult |-> 0, body |-> <<64, 0, 3, 0>>]
\* a LAT low byte 5, a LAT low byte 0
T_Lat == [flg0 |-> 1024, flg1 |-> 1024, mult |-> 0, body |-> <<128, 0, 5, 0>>]
T_LatZero == [flg0 |-> 1024, flg1 |-> 1024, mult |-> 0, body |-> <<128, 0, 0, 0>>]
\* data bytes for groups 0, 3, 6 and 7: E1 low 7 and high 1, both signed by
\* group 0's sign byte; (3,6) 9; (7,0) 2, signed by group 3's sign byte
T_Groups == [flg0 |-> 201, flg1 |-> 201, mult |-> 0,
             body |-> <<1, 64, 1, 1, 1, 1, 7, 9, 1, 2, 0>>]
\* LAT high byte 1 and low byte 5, both signed by bit 7 of the sign byte
T_LatHi == [flg0 |-> 1024, flg1 |-> 1024, mult |-> 0, body |-> <<132, 128, 1, 5, 0>>]
\* an E1 byte 0
T_E1Zero == [flg0 |-> 1, flg1 |-> 1, mult |-> 0, body |-> <<1, 0, 0, 0>>]
\* HRS low byte 0 and high byte 2; HRS low byte 3 with its sign bit, high byte 1
T_HrsHi == [flg0 |-> 512, flg1 |-> 512, mult |-> 0, body |-> <<192, 0, 0, 2, 0>>]
T_HrsNeg == [flg0 |-> 512, flg1 |-> 512, mult |-> 0, body |-> <<192, 64, 3, 1, 0>>]

Templates == {T_E1, T_E1E2, T_MarkX, T_MarkZero, T_Mult1, T_Mult2, T_Empty, T_Bad}

RECURSIVE SeqsUpTo(_, _)
\* the sequences over S of length at most n
SeqsUpTo(S, n) ==
  IF n = 0 THEN {<<>>}
  ELSE LET shorter == SeqsUpTo(S, n - 1)
       IN shorter \cup {Append(q, x) : q \in shorter, x \in S}

\* packed date 01/18/2025 and packed time 10:20:30
DateWord == (25 * 16 + 1) * 32 + 18
TimeWord == (10 * 64 + 20) * 32 + 15

\* a flight block: header, records, a trailer of four zero bytes, padded to
\* an even length
FlightBytes(edm, f) ==
  LET hdr == Word(f.hid) \o Word(f.cfg[1]) \o Word(f.cfg[2])
             \o (IF edm THEN Word(f.cfg[3]) \o Word(f.cfg[4]) \o Word(f.cfg[5])
                 ELSE <<>>)
             \o (IF f.seeded THEN Long(f.lat) \o Long(f.lng) ELSE <<>>)
             \o <<0, 0>> \o Word(f.interval) \o Word(DateWord) \o Word(TimeWord)
             \o <<0>>
      body == hdr \o Flatten([i \in 1..Len(f.recs) |-> RecBytes(edm, f.recs[i])])
              \o <<0, 0, 0, 0>>
  IN IF Len(body) % 2 = 1 THEN body \o <<0>> ELSE body

\* a flight description: hid is the id in the block's header, id the one in
\* the $D record, extra what the $D size adds to the block's length in words
Flight(id, hid, cfg, recs, extra) ==
  [id |-> id, hid |-> hid, cfg |-> cfg, recs |-> recs, extra |-> extra,
   seeded |-> FALSE, lat |-> 0, lng |-> 0, interval |-> 6]

DRec(edm, f) ==
  DollarRec(<<"$","D",",">> \o NatStr(f.id) \o <<",">>
            \o NatStr(Len(FlightBytes(edm, f)) \div 2 + f.extra))

\* "$C,<model>,0,0,0,0,0,107,<build>,0"
CRec(mdl, build) ==
  DollarRec(<<"$","C",",">> \o mdl \o <<",","0",",","0",",","0",",","0",",","0",
              ",","1","0","7",",">> \o build \o <<",","0">>)

URec == DollarRec(<<"$","U",",","N","1">>)
LRec == DollarRec(<<"$","L",",","1">>)

\* a well-formed file for one device and a list of flights
File(mdl, build, edm, fls) ==
  URec \o DollarRec(<<"$","A",",","1">>) \o DollarRec(<<"$","F",",","0">>)
  \o DollarRec(<<"$","T",",","1">>) \o CRec(mdl, build)
  \o Flatten([i \in 1..Len(fls) |-> DRec(edm, fls[i])])
  \o LRec
  \o Flatten([i \in 1..Len(fls) |-> FlightBytes(edm, fls[i])])

CfgMark == <<5, 0, 0, 0, 0>>    \* E1 and DIF, CLD, BAT, HRS, MARK
CfgE == <<12, 0, 0, 0, 0>>      \* E1, E2
CfgNone == <<0, 0, 0, 0, 0>>    \* no sensor column
CfgGps == <<4, 0, 0, 0, 24>>    \* E1, LAT, LNG
CfgLat == <<4, 0, 0, 0, 8>>     \* E1, LAT
CfgDif == <<13, 0, 0, 0, 0>>    \* E1, E2 and DIF, CLD, BAT, HRS, MARK

M900 == <<"9","0","0">>
M930 == <<"9","3","0">>
M960 == <<"9","6","0">>
M700 == <<"7","0","0">>
B500 == <<"5","0","0">>
B1000 == <<"1","0","0","0">>

\* one flight, every record list up to MaxRecs
FilesOneFlight ==
  {File(M900, B500, TRUE, <<Flight(1, 1, cfg, recs, 0)>>) :
     cfg \in {CfgMark, CfgE}, recs \in SeqsUpTo(Templates, MaxRecs)}

\* two flights; the second block's header id may differ from its $D id
FilesTwoFlights ==
  {File(M900, B500, TRUE, <<Flight(1, 1, CfgMark, r1, 0), Flight(2, h2, CfgE, r2, 0)>>) :
     r1 \in {<<T_Empty, T_E1>>, <<T_MarkX, T_Mult2>>}, h2 \in {2, 3},
     r2 \in {<<T_E1E2>>, <<T_Mult1>>}}

\* other devices: a legacy model (byte flags), a twin, a 930
FilesDevices ==
  {File(d[1], B500, d[2], <<Flight(1, 1, cfg, recs, 0)>>) :
     d \in {<<M700, FALSE>>, <<M960, TRUE>>, <<M930, TRUE>>},
     cfg \in {CfgMark, CfgNone, CfgGps},
     recs \in {<<T_E1, T_MarkX>>, <<T_Empty, T_E1>>, <<T_MarkX, T_Mult1>>}}

BaseFlight == Flight(1, 1, CfgMark, <<T_E1, T_MarkX>>, 0)

\* metadata anomalies: no $U anchor, an unrecognized tag before $L, a file cut
\* inside a $D record, $E before $L, a $L terminator one byte short (the
\* blocks start one byte before the computed offsets), a $D size that runs
\* past the buffer end
FilesMeta ==
  { DollarRec(<<"$","T",",","1">>) \o CRec(M900, B500) \o DRec(TRUE, BaseFlight)
      \o LRec \o FlightBytes(TRUE, BaseFlight),
    URec \o CRec(M900, B500) \o DRec(TRUE, BaseFlight)
      \o DollarRec(<<"$","Z",",","1">>) \o LRec \o FlightBytes(TRUE, BaseFlight),
    URec \o CRec(M900, B500) \o Bytes(<<"$","D",",","1",",","2","0">>),
    URec \o CRec(M900, B500) \o DRec(TRUE, BaseFlight)
      \o DollarRec(<<"$","E">>) \o LRec \o FlightBytes(TRUE, BaseFlight),
    URec \o CRec(M900, B500) \o DRec(TRUE, BaseFlight)
      \o Bytes(<<"$","L",",","1">>) \o <<42, 48, 48, 13>>
      \o FlightBytes(TRUE, BaseFlight),
    File(M900, B500, TRUE, <<Flight(1, 1, CfgMark, <<T_E1>>, 3)>>) }

\* flights of four records with MARK glyphs that change the interval
FilesMark ==
  {File(M900, B500, TRUE, <<Flight(1, 1, CfgMark, recs, 0)>>) :
     recs \in {<<T_MarkX, T_MarkX, T_MarkX, T_E1>>, <<T_MarkLt, T_E1, T_MarkX, T_E1>>}}

\* two EGT channels and DIF; one record carries both EGT bytes, one only E1
FilesEgt ==
  {File(M900, B500, TRUE, <<Flight(1, 1, CfgDif, recs, 0)>>) :
     recs \in {<<T_E1E2, T_E1>>, <<T_E1, T_E1E2>>}}

\* a flight whose header carries a starting LAT / LNG (build 1000)
SeededFlight(lat, lng, recs) ==
  [Flight(1, 1, CfgGps, recs, 0) EXCEPT !.seeded = TRUE, !.lat = lat, !.lng = lng]

\* GPS flights: seeded on an EDM900 of build 1000, unseeded on an EDM930
FilesGps ==
  {File(M900, B1000, TRUE, <<SeededFlight(sd[1], sd[2], <<T_Gps, T_Gps>>)>>) :
     sd \in {<<600000, 1234>>, <<-123456, 6000000>>, <<1234, -5678>>}}
  \cup {File(M930, B500, TRUE, <<Flight(1, 1, CfgGps, recs, 0)>>) :
          recs \in {<<T_Gps, T_Gps>>, <<T_Gps, T_E1>>}}

\* flights with HRS bytes: tach values 24.3 and 24.6
FilesHrs ==
  {File(M900, B500, TRUE, <<Flight(1, 1, CfgMark, recs, 0)>>) :
     recs \in {<<T_Hrs, T_Hrs>>, <<T_E1, T_Hrs>>, <<T_Hrs, T_E1, T_Hrs>>}}
  \cup {File(M900, B500, TRUE, <<Flight(1, 1, CfgMark, <<T_Hrs, T_Hrs>>, 0),
                                 Flight(2, 2, CfgE, <<T_E1>>, 0)>>)}

\* flights with both HRS bytes: a zero low byte under a high byte, and a
\* low byte with its sign bit set
FilesHrsHi ==
  {File(M900, B500, TRUE, <<Flight(1, 1, CfgMark, recs, 0)>>) :
     recs \in {<<T_HrsHi, T_Hrs>>, <<T_HrsNeg, T_HrsNeg>>}}

\* a flight whose second record has an invalid E1
FilesCarry ==
  {File(M900, B500, TRUE, <<Flight(1, 1, CfgE, <<T_E1E2, T_E1Zero, T_E1>>, 0)>>)}

\* flights with a LAT gap of one row, with and without a LNG column
FilesGap ==
  {File(M900, B500, TRUE, <<Flight(1, 1, cfg, <<T_Gps, T_LatZero, T_Lat>>, 0)>>) :
     cfg \in {CfgGps, CfgLat}}
  \cup {File(M900, B500, TRUE,
             <<Flight(1, 1, CfgGps, <<T_Gps, T_LatZero, T_Mult1>>, 0)>>)}

\* flights with high bytes of groups 6, 7 and 10
FilesGroups ==
  {File(M900, B500, TRUE, <<Flight(1, 1, CfgGps, <<T_Groups, T_LatHi>>, 0)>>)}

\* a directory whose first $D record has an id that is not a number
FilesBadId ==
  {URec \o CRec(M900, B500)
     \o DollarRec(<<"$","D",",","?",",">>
                  \o NatStr(Len(FlightBytes(TRUE, BaseFlight)) \div 2))
     \o DRec(TRUE, Flight(2, 2, CfgE, <<T_E1>>, 0)) \o LRec
     \o FlightBytes(TRUE, BaseFlight)
     \o FlightBytes(TRUE, Flight(2, 2, CfgE, <<T_E1>>, 0))}

\* three directory entries; the first block is one byte shorter than its $D
\* size says, so the second block lies one byte before its computed offset;
\* the third block's header id may differ from its $D id
ShiftedFile(h3) ==
  URec \o CRec(M900, B500)
  \o DRec(TRUE, BaseFlight)
  \o DRec(TRUE, Flight(2, 2, CfgE, <<T_E1>>, 0))
  \o DRec(TRUE, Flight(3, h3, CfgE, <<T_E1E2>>, 0))
  \o LRec
  \o SubSeq(FlightBytes(TRUE, BaseFlight), 1, Len(FlightBytes(TRUE, BaseFlight)) - 1)
  \o FlightBytes(TRUE, Flight(2, 2, CfgE, <<T_E1>>, 0))
  \o FlightBytes(TRUE, Flight(3, h3, CfgE, <<T_E1E2>>, 0))

FilesShift == {ShiftedFile(3), ShiftedFile(4)}

\* a $P record after the $C record and before it, for a model below 900 and
\* for one at or above 900; the blocks are written with 16-bit flag words
PRec == DollarRec(<<"$","P",",","2">>)

ProtoFile(mdl, pFirst) ==
  URec \o (IF pFirst THEN PRec \o CRec(mdl, B500) ELSE CRec(mdl, B500) \o PRec)
  \o DRec(TRUE, BaseFlight) \o LRec \o FlightBytes(TRUE, BaseFlight)

FilesProto == {ProtoFile(mdl, pFirst) : mdl \in {M700, M900}, pFirst \in BOOLEAN}

\* a seeded flight in a file that ends k bytes after the five config words
\* of the flight header: the starting LAT / LNG reads run out of bytes
CutFile(k) ==
  LET sf == SeededFlight(1234, 0 - 5678, <<T_Gps>>)
      f == File(M900, B1000, TRUE, <<sf>>)
  IN SubSeq(f, 1, Len(f) - Len(FlightBytes(TRUE, sf)) + 12 + k)

FilesCut == {CutFile(k) : k \in {2, 3, 4, 6, 8}}

Files == FilesOneFlight \cup FilesTwoFlights \cup FilesDevices \cup FilesMeta
         \cup FilesMark \cup FilesEgt \cup FilesGps \cup FilesHrs \cup FilesBadId
         \cup FilesShift \cup FilesHrsHi \cup FilesCarry \cup FilesGap \cup FilesGroups
         \cup FilesProto \cup FilesCut

\* a flight id no generated directory holds
AbsentId == 9

\* the date string a caller of the record-at-a-time interface passes
ApiDate == <<"1","/","1","8","/","2","0","2","5"," ","1","0",":","2","0",":","3","0">>

(***************************************************************************)
(* Actions: the calls a client makes on one decoder instance.              *)
(***************************************************************************)
\* a repeat run may grow without end; it is counted up to RunCap
RunCap == 4

NoResult == [op |-> "none", threw |-> "", id |-> -1, kind |-> "none",
             headers |-> <<>>, rows |-> <<>>, text |-> <<>>, truncated |-> FALSE,
             summaries |-> <<>>]

NoRun == [n |-> 0, at |-> -1, afterDecoded |-> FALSE]

\* what readRecord's outcome r does to the repeat-run count: n counts the
\* repeat rows returned in a row for the record at offset at
RunAfter(r, old) ==
  IF r.kind = "repeat"
    THEN IF old.n > 0 /\ old.at = r.savePtr
           THEN [old EXCEPT !.n = IF @ < RunCap THEN @ + 1 ELSE @]
           ELSE [old EXCEPT !.n = 1, !.at = r.savePtr]
  ELSE IF r.kind = "row" THEN [n |-> 0, at |-> -1, afterDecoded |-> TRUE]
  ELSE [old EXCEPT !.n = 0, !.at = -1]

\* the locals of a readRecord call
Locals(r) == [kind |-> r.kind, text |-> r.text, flg0 |-> r.flg0, flg1 |-> r.flg1,
              mult |-> r.mult, savePtr |-> r.savePtr]

CallIds == {self.flights[i].id : i \in 1..Len(self.flights)} \cup {AbsentId}

Init ==
  /\ self = NewDecomp
  /\ pc = "new"
  /\ calls = 0
  /\ loop = NoLoop
  /\ result = NoResult
  /\ rr = NoRead
  /\ run = NoRun
  /\ firstOut = <<>>
  /\ tick = 0

ParseFile ==
  /\ pc = "new"
  /\ \E buf \in Files :
       self' = parseFile([self EXCEPT !.ptr = 0, !.flights = <<>>], buf)
  /\ pc' = "idle"
  /\ result' = [NoResult EXCEPT !.op = "parseFile"]
  /\ UNCHANGED <<calls, loop, rr, run, firstOut, tick>>

\* the caller sees o, the outcome of openFlight(id)
OpenFlightReturns(id, o) ==
  /\ self' = o.st
  /\ result' = [NoResult EXCEPT !.op = "openFlight", !.threw = o.threw,
                                !.id = id, !.headers = o.headers]

OpenFlight ==
  /\ pc = "idle"
  /\ calls < MaxCalls
  /\ \E id \in CallIds : OpenFlightReturns(id, openFlight(self, id))
  /\ calls' = calls + 1
  /\ run' = NoRun
  /\ UNCHANGED <<pc, loop, rr, firstOut, tick>>

\* the caller sees r, the outcome of readRecord
ReadRecordReturns(r) ==
  /\ self' = r.st
  /\ rr' = Locals(r)
  /\ run' = RunAfter(r, run)
  /\ result' = [NoResult EXCEPT !.op = "readRecord", !.kind = r.kind,
                   !.threw = IF r.kind = "throw" THEN "Flight Not Selected" ELSE "",
                   !.text = r.text]

ReadRecord ==
  /\ pc = "idle"
  /\ calls < MaxCalls
  /\ ReadRecordReturns(readRecord(self, ApiDate))
  /\ calls' = calls + 1
  /\ UNCHANGED <<pc, loop, firstOut, tick>>

\* decodeFlightToRows(id) threw, or entered its loop with the locals ds holds
DecodeStarted(id, ds) ==
  /\ self' = ds.st
  /\ loop' = ds.loop
  /\ rr' = IF ds.threw = "" THEN Locals(ds.rr) ELSE rr
  /\ run' = IF ds.threw = "" THEN RunAfter(ds.rr, NoRun) ELSE NoRun
  /\ pc' = IF ds.threw = "" THEN "loop" ELSE "idle"
  /\ result' = [NoResult EXCEPT !.op = "decodeFlightToRows", !.id = id,
                                !.threw = ds.threw,
                                !.kind = IF ds.threw = "" THEN "running" ELSE "throw"]

DecodeStart ==
  /\ pc = "idle"
  /\ calls < MaxCalls
  /\ \E id \in CallIds : DecodeStarted(id, decodeStart(self, id))
  /\ calls' = calls + 1
  /\ UNCHANGED <<firstOut, tick>>

\* the loop body ran: st holds the instance and the locals after it
DecodeStepped(st) ==
  /\ self' = st.st
  /\ loop' = st.loop
  /\ rr' = Locals(st.rr)
  /\ run' = RunAfter(st.rr, run)

DecodeStep ==
  /\ pc = "loop"
  /\ loop.more
  /\ DecodeStepped(decodeStep(self, loop))
  /\ tick' = 1 - tick
  /\ UNCHANGED <<pc, calls, result, firstOut>>

\* decodeFlightToRows returned out
DecodeReturns(out) ==
  /\ result' = [result EXCEPT !.kind = "returned", !.headers = out.headers,
                              !.rows = out.rows, !.truncated = out.truncated]
  /\ firstOut' = IF loop.id \in DOMAIN firstOut THEN firstOut
                 ELSE (loop.id :> [headers |-> out.headers, rows |-> out.rows])
                      @@ firstOut

DecodeFinish ==
  /\ pc = "loop"
  /\ ~loop.more
  /\ DecodeReturns(decodeFinish(loop))
  /\ pc' = "idle"
  /\ loop' = NoLoop
  /\ tick' = 1 - tick
  /\ UNCHANGED <<self, calls, rr, run>>

\* the caller sees o, the outcome of summarizeFlights; a call that does not
\* return leaves the program inside it
SummarizeReturns(o) ==
  /\ self' = o.st
  /\ pc' = IF o.kind = "running" THEN "hung" ELSE "idle"
  /\ result' = [NoResult EXCEPT !.op = "summarizeFlights",
                                !.kind = IF o.kind = "threw" THEN "throw" ELSE o.kind,
                                !.threw = IF o.kind = "threw" THEN "Flight Not Found"
                                          ELSE "",
                                !.summaries = o.summaries]

SummarizeFlights ==
  /\ pc = "idle"
  /\ calls < MaxCalls
  /\ SummarizeReturns(summarizeFlights(self))
  /\ calls' = calls + 1
  /\ rr' = NoRead
  /\ run' = NoRun
  /\ UNCHANGED <<loop, firstOut, tick>>

Next ==
  \/ ParseFile
  \/ OpenFlight
  \/ ReadRecord
  \/ DecodeStart
  \/ DecodeStep
  \/ DecodeFinish
  \/ SummarizeFlights

Spec == Init /\ [][Next]_vars

(***************************************************************************)
(* decodeFlightToRows is one synchronous call: once inside its loop the    *)
(* program keeps executing it.  LoopStep is a step of that loop as tick    *)
(* shows it: DecodeStep and DecodeFinish are the actions that start in the *)
(* loop, one of them is enabled whenever pc = "loop", and both flip tick.  *)
(* Weak fairness of LoopStep says no more than that the loop keeps         *)
(* stepping; whether it ever leaves is up to readRecord.                   *)
(***************************************************************************)
LoopStep == pc = "loop" /\ tick' = 1 - tick

FairSpec == Spec /\ WF_tick(LoopStep)

(***************************************************************************)
(* Properties.                                                             *)
(***************************************************************************)
DecodeOp == "decodeFlightToRows"

\* the directory entry openFlight selects for id has found = false
FoundFalse(id) ==
  FindFlight(self, id) >= 0 /\ self.flights[FindFlight(self, id) + 1].found = "false"

\* C1: a record with mult byte N that follows a decoded record yields exactly
\* N repeat rows on successive readRecord calls; the call after the N-th does
\* not return a further repeat of the same run.  run.n counts the repeat rows
\* returned in a row for the record at one offset, rr.mult is its mult byte.
C1_RepeatRunEnds ==
  (run.afterDecoded /\ rr.kind = "repeat") => run.n <= rr.mult

\* C2: decodeFlightToRows(id) terminates for every flight in the directory,
\* also when the flight holds a record with a non-zero mult byte: a call
\* that entered the loop leaves it.
C2_DecodeTerminates == (pc = "loop") ~> (pc = "idle")

\* C3: readRecord returns a row (decoded or repeat) only if the two flags
\* read at the start of the record are equal and neither is -1; with flags
\* read that fail this it returns end-of-stream, no text, and the decode loop
\* pushes no row for it.
C3_RowOnlyOnMatchingFlags ==
  /\ rr.kind \in {"row", "repeat"}
       => (rr.flg0 = rr.flg1 /\ rr.flg0 # -1 /\ rr.flg1 # -1)
  /\ (rr.flg0 # NotRead /\ (rr.flg0 # rr.flg1 \/ rr.flg0 = -1 \/ rr.flg1 = -1))
       => (rr.kind = "eos" /\ rr.text = <<>> /\ (pc = "loop" => ~loop.more))

\* a readRecord call read two different flag values and returned end-of-stream
C3_Witness ==
  rr.kind = "eos" /\ rr.flg0 # NotRead /\ rr.flg0 # rr.flg1 /\ rr.flg0 # -1

\* C4: openFlight(id) and decodeFlightToRows(id) raise 'Flight Not Found'
\* when id is absent from the directory and when its entry has found = false
\* after the recovery probe; neither headers nor rows are produced.
C4_NotFoundRaised ==
  (result.op \in {"openFlight", DecodeOp}
   /\ (FindFlight(self, result.id) < 0 \/ FoundFalse(result.id)))
    => (result.threw = "Flight Not Found" /\ result.headers = <<>>
        /\ result.rows = <<>> /\ pc = "idle")

\* the buffer holds no "$U"
NoAnchor(b) == \A i \in 1..(Len(b) - 1) : ~(b[i] = 36 /\ b[i + 1] = 85)

\* the "$D" tags in the first n bytes of b
DTags(b, n) == {i \in 1..(Len(b) - 1) : i < n /\ b[i] = 36 /\ b[i + 1] = 68}

\* the metadata is malformed: no anchor, a truncated record, an unrecognized tag
Malformed == NoAnchor(self.bin) \/ self.scanStop \in {"tag", "throw", "end"}

OtherModel == self.model \notin {M900, M930}

\* the directory holds an entry with this id
InDirectory(id) ==
  \E i \in 1..Len(self.flights) : ~self.flights[i].nan /\ self.flights[i].id = id

C7_DecodeIdempotent ==
  (result.op = DecodeOp /\ result.kind = "returned" /\ result.id \in DOMAIN firstOut)
    => (result.headers = firstOut[result.id].headers
        /\ result.rows = firstOut[result.id].rows)

BitOn(w, k) == w = -1 \/ (w >= 0 /\ (w \div Pow2(k)) % 2 = 1)

\* DATE, TIME and the tokens of the descriptors whose config bit is set, in
\* table order
ExpectedHeaders(cfg) ==
  LET on == SelectSeq([i \in 1..headerCount |-> i],
                      LAMBDA i : BitOn(cfg[HeaderTable[i].cfgBytIdx + 1],
                                       HeaderTable[i].cfgBitIdx))
  IN <<S_DATE, S_TIME>> \o [k \in 1..Len(on) |-> HeaderTable[on[k]].hdrStr]

MarkCol(h) == LastIndexOf(h, S_MARK) + 1

\* no two successive rows hold the same non-empty MARK cell
MarkEdges(rows, h) ==
  MarkCol(h) > 0 =>
    \A i \in 1..(Len(rows) - 1) :
      rows[i][MarkCol(h)] = rows[i + 1][MarkCol(h)] => rows[i][MarkCol(h)] = <<>>

\* the row a loop step pushes: its MARK cell is the raw MARK of the record
\* text or empty, a glyph only if the raw MARK differs from the previous
\* row's (prevMark, '' before the first row), and prevMark becomes the raw MARK
MarkStep ==
  (DecodeStep /\ MarkCol(loop.headersArray) > 0 /\ Len(loop'.rows) > Len(loop.rows))
    => LET mc == MarkCol(loop.headersArray)
           raw == SplitRow(loop.rec, loop.headersArray)[mc]
           cell == loop'.rows[Len(loop'.rows)][mc]
       IN /\ cell \in {raw, <<>>}
          /\ cell # <<>> => raw # loop.prevMark
          /\ (raw # loop.prevMark /\ raw # S_NA) => cell = raw
          /\ loop'.prevMark = raw

\* C10: in the rows of decodeFlightToRows the MARK cell of a row never
\* equals that of the previous row unless both are empty; a glyph is output
\* only where the raw MARK differs from the previous row's raw MARK, and the
\* first row keeps its MARK.
C10_MarkEdgeOnly ==
  /\ [](MarkEdges(loop.rows, loop.headersArray)
        /\ (result.op = DecodeOp => MarkEdges(result.rows, result.headers)))
  /\ [][MarkStep]_vars

\* the second row's raw MARK was 'X' like the first row's, and was blanked
C10_Witness ==
  /\ pc = "loop" /\ MarkCol(loop.headersArray) > 0 /\ Len(loop.rows) = 2
  /\ loop.rows[1][MarkCol(loop.headersArray)] = <<"X">>
  /\ loop.rows[2][MarkCol(loop.headersArray)] = <<>>
  /\ loop.prevMark = <<"X">>

\* the instant the DATE and TIME cells of a record text denote
RecTime(rec, h) == ParseDate(SplitRow(rec, h)[1], SplitRow(rec, h)[2])

\* the raw MARK cell of a record text
RawMark(rec, h) == SplitRow(rec, h)[MarkCol(h)]

\* the interval a record with this raw MARK leaves: 1 after '<' and '[', the
\* flight's original interval after '>' and ']'
IntervalAfterMark ==
  (pc = "loop" /\ loop.more /\ MarkCol(loop.headersArray) > 0)
    => /\ RawMark(loop.rec, loop.headersArray) \in {<<"<">>, <<"[">>}
            => self.recordInterval = 1
       /\ RawMark(loop.rec, loop.headersArray) \in {<<">">>, <<"]">>}
            => self.recordInterval = self.originalInterval

\* a loop step that pushes row k and reads row k+1: the timestamp of row k+1
\* is that of row k plus the interval in effect after row k, and a record
\* whose raw MARK is none of the four glyphs leaves the interval as it was
TimeStep ==
  (DecodeStep /\ loop'.more /\ Len(loop.rows) < MaxRows
   /\ RecTime(loop.rec, loop.headersArray).valid)
    => /\ RecTime(loop'.rec, loop.headersArray)
            = AddSeconds(RecTime(loop.rec, loop.headersArray), self.recordInterval)
       /\ (MarkCol(loop.headersArray) > 0
           /\ RawMark(loop'.rec, loop.headersArray)
                \notin {<<"<">>, <<"[">>, <<">">>, <<"]">>})
            => self'.recordInterval = self.recordInterval

JustDecoded == rr.kind = "row" /\ (pc = "loop" \/ result.op = "readRecord")

\* the control bytes of the record the last readRecord call decoded
RecCtl ==
  readCtl(self.bin, rr.savePtr + (IF self.edmTypeActual THEN 5 ELSE 3),
          rr.flg0, 0, NoCtrl).ctl

\* the enabled EGT entries (E1..E4) whose low byte was read in that record
\* and was not zero
FreshEgt ==
  {k \in 1..Len(self.headerIndex) :
     LET Hd == HeaderTable[self.headerIndex[k]]
     IN /\ Len(Hd.hdrStr) = 2 /\ Hd.hdrStr[1] = "E"
        /\ (Hd.mLoBytIdx * 8 + Hd.mLoBitIdx) \in DataSlots(RecCtl)
        /\ self.dataBytes[Hd.mLoBytIdx][Hd.mLoBitIdx].isValid}

\* max minus min of the values of the entries ks, 0 for none
Spread(ks) ==
  IF ks = {} THEN 0
  ELSE LET vals == {self.headers[self.headerIndex[k]] : k \in ks}
       IN (CHOOSE x \in vals : \A y \in vals : y <= x)
          - (CHOOSE x \in vals : \A y \in vals : x <= y)

\* the positions of DIF among the enabled entries
DifCols == {k \in 1..Len(self.headerIndex) :
              HeaderTable[self.headerIndex[k]].hdrStr = S_DIF}

\* C12: the DIF cell of a decoded record is max minus min over exactly the
\* EGT channels whose low data byte was read in this record and was not
\* zero; an EGT that is absent from the record, or valid only from an earlier
\* record, does not contribute.
C12_DifFromCurrentRecord ==
  JustDecoded =>
    \A k \in DifCols : Split(rr.text, ",")[k + 1] = vbIntStr(Spread(FreshEgt))

\* the positions of the entries with token h among the enabled entries
ColsOf(h) == {k \in 1..Len(self.headerIndex) :
                HeaderTable[self.headerIndex[k]].hdrStr = h}

\* the cell of a decoded record text for the k-th enabled entry
RecCell(k) == Split(rr.text, ",")[k + 1]

\* a hemisphere letter, n degree digits, '.', two digits, '.', two digits
CoordForm(c, letters, n) ==
  /\ Len(c) = n + 7
  /\ c[1] \in letters
  /\ \A i \in 2..(n + 1) : IsDigit(c[i])
  /\ c[n + 2] = "." /\ IsDigit(c[n + 3]) /\ IsDigit(c[n + 4])
  /\ c[n + 5] = "." /\ IsDigit(c[n + 6]) /\ IsDigit(c[n + 7])

\* C13: every LAT cell that is not NA is N or S, two digits, '.', two digits,
\* '.', two digits, and every LNG cell that is not NA is E or W, three
\* digits, '.', two digits, '.', two digits, whatever the running total.
C13_CoordFormat ==
  JustDecoded =>
    /\ \A k \in ColsOf(S_LAT) :
         RecCell(k) # S_NA => CoordForm(RecCell(k), {"N", "S"}, 2)
    /\ \A k \in ColsOf(S_LNG) :
         RecCell(k) # S_NA => CoordForm(RecCell(k), {"E", "W"}, 3)

\* decodeFlightToRows decoded the first record of the flight and pushed no
\* row yet
FirstDecoded == pc = "loop" /\ Len(loop.rows) = 0 /\ ~loop.truncated /\ rr.kind = "row"

\* the selected directory entry of instance s
Entry(s) == s.flights[s.currFltIdx + 1]

\* the header seed of LAT / LNG (token h) of the selected flight, none when
\* the header carried no finite value
HasSeed(s, h) == IF h = S_LAT THEN Entry(s).hasLat ELSE Entry(s).hasLng
SeedOf(s, h) == IF h = S_LAT THEN Entry(s).latitudeStart ELSE Entry(s).longitudeStart

\* the signed delta the record just decoded holds for the k-th enabled
\* entry; a computed entry (DIF) has no bytes and no delta
RecDelta(s, k) ==
  IF HeaderTable[s.headerIndex[k]].mLoBytIdx = -1 THEN 0
  ELSE DeltaOf(s.dataBytes, s.headerIndex[k], s.firstHOBRec)

\* C14 as stated: the LAT / LNG total after the first record is the header
\* seed plus the record's delta when the header carries a finite seed, and the
\* record's delta alone otherwise.
C14_GpsStartsFromDelta ==
  FirstDecoded =>
    \A h \in {S_LAT, S_LNG} : \A k \in ColsOf(h) :
      self.headers[self.headerIndex[k]]
        = (IF HasSeed(self, h) THEN SeedOf(self, h) ELSE 0) + RecDelta(self, k)

\* C14 amended: the LAT / LNG total after the first record is the header seed
\* plus the record's delta when the header carries a finite seed, and the
\* default 240 plus the record's delta otherwise.
C14_GpsStartsFromSeedOrDefault ==
  FirstDecoded =>
    \A h \in {S_LAT, S_LNG} : \A k \in ColsOf(h) :
      self.headers[self.headerIndex[k]]
        = (IF HasSeed(self, h) THEN SeedOf(self, h) ELSE 240) + RecDelta(self, k)

\* the first record of a flight without a seed was decoded with a LAT byte
\* 5: the total is 245
C14_Witness ==
  /\ FirstDecoded /\ ColsOf(S_LAT) # {} /\ ~HasSeed(self, S_LAT)
  /\ \A k \in ColsOf(S_LAT) :
       RecDelta(self, k) = 5 /\ self.headers[self.headerIndex[k]] = 245

\* the total table entry i has right after openFlight
DefaultTotal(s, i) ==
  IF HeaderTable[i].hdrStr \in {S_LAT, S_LNG} /\ HasSeed(s, HeaderTable[i].hdrStr)
    THEN SeedOf(s, HeaderTable[i].hdrStr)
  ELSE IF HeaderTable[i].hdrStr = S_HP /\ ~s.twin THEN 0
  ELSE 240

\* the call just returned opened a flight
Opened == result.op = "openFlight" /\ result.threw = ""

\* a step in which readRecord returned a record of kind kd: the API call or
\* a step of the decode loop
ReadStep(kd) == (ReadRecord \/ DecodeStep) /\ rr'.kind = kd

\* a decoded record adds its signed delta to the total of every enabled
\* channel, a repeat row changes no total, and the first record of
\* decodeFlightToRows adds its delta to the default
TotalsStep ==
  /\ ReadStep("row") =>
       \A k \in 1..Len(self'.headerIndex) :
         self'.headers[self'.headerIndex[k]]
           = self.headers[self.headerIndex[k]] + RecDelta(self', k)
  /\ ReadStep("repeat") => self'.headers = self.headers
  /\ (DecodeStart /\ pc' = "loop" /\ rr'.kind = "row") =>
       \A k \in 1..Len(self'.headerIndex) :
         self'.headers[self'.headerIndex[k]]
           = DefaultTotal(self', self'.headerIndex[k]) + RecDelta(self', k)

\* C15: right after every openFlight each channel's running total is its
\* default (240; 0 for HP on a single-engine device; the finite header seed
\* for LAT / LNG), whatever was decoded before; a decoded record adds its
\* signed delta, a repeat row leaves the totals unchanged.
C15_TotalsResetAndAccumulate ==
  /\ [](Opened => \A i \in 1..headerCount : self.headers[i] = DefaultTotal(self, i))
  /\ [][TotalsStep]_vars

\* openFlight returned after records of a flight had moved the E1 total, and
\* the total is 240 again
C15_Witness ==
  /\ Opened /\ firstOut # <<>> /\ self.headers[1] = 240
  /\ \E id \in DOMAIN firstOut : \E i \in 1..Len(firstOut[id].rows) :
       firstOut[id].rows[i][3] = <<" ","2","5","0">>

(***************************************************************************)
(* C16.  The checksum bytes.                                               *)
(***************************************************************************)
\* the buffer b with the byte v at offset pos
WithByte(b, pos, v) == [b EXCEPT ![pos + 1] = v]

\* what the caller of decodeFlightToRows sees
Outcome(id, d) ==
  [id |-> id, kind |-> d.kind, headers |-> d.out.headers, rows |-> d.out.rows]

\* every directory entry of the parsed instance s decoded
DecodeAll(s) ==
  [i \in 1..Len(s.flights) |->
     Outcome(s.flights[i].id, decodeFlightToRows(s, s.flights[i].id))]

\* a new instance is given the buffer b and decodes every flight of it
FreshDecode(b) == DecodeAll(parseFile(NewDecomp, b))

\* openFlight has just parsed a header whose id matched the directory
HeaderScanned ==
  /\ Opened
  /\ ~Entry(self).nan
  /\ getWordAt(self.bin, Entry(self).start) = Entry(self).id

\* the offset of the checksum byte the last call read inside the block of
\* the open flight, -1 if it read none.  getByte does not move the cursor
\* past the end, so a cursor short of the buffer's end shows that the last
\* byte asked for was there.  A record that starts before endOfFlight - 4
\* may run beyond endOfFlight; the byte it then reads as its checksum
\* belongs to the next flight's block and is not counted here
ChecksumAt ==
  IF (JustDecoded \/ HeaderScanned) /\ self.ptr < Len(self.bin)
     /\ self.ptr <= self.endOfFlight
    THEN self.ptr - 1 ELSE 0 - 1

\* the values the checksum byte is replaced by
OtherChecksums == {1, 255}

ReadCall == ReadRecord \/ DecodeStep

\* the cursor is within the last 4 bytes of the flight or beyond its end
NearFlightEnd == self.ptr >= self.endOfFlight - 4

\* one of the two flag reads finds too few bytes left in the buffer
FlagsPastBuffer ==
  IF self.edmTypeActual THEN self.ptr + 3 >= Len(self.bin)
  ELSE self.ptr + 1 >= Len(self.bin)

ReadOnOpenFlight ==
  (ReadCall /\ self.currFltIdx >= 0) =>
     /\ rr'.kind \in {"eos", "repeat", "row"}
     /\ (NearFlightEnd \/ FlagsPastBuffer) => rr'.kind = "eos"
     /\ NearFlightEnd => self'.ptr = self.ptr

\* C17: with a flight open every readRecord call returns (end of stream, a
\* repeated row or a decoded row) and never throws; it returns end of stream
\* when the cursor is at or past endOfFlight - 4, leaving the cursor alone,
\* and when a flag read runs past the end of the buffer
C17_EndOfStreamNotError == [][ReadOnOpenFlight]_vars

\* readRecord returned end of stream because a flag read ran past the buffer
\* of a flight whose directory size reaches beyond the file
C17_Witness ==
  /\ result.op = "readRecord"
  /\ result.kind = "eos"
  /\ result.threw = ""
  /\ self.currFltIdx >= 0
  /\ rr.flg0 = 0 - 1
  /\ rr.savePtr < self.endOfFlight - 4

(***************************************************************************)
(* C18.  The tach fields of a summary.                                     *)
(***************************************************************************)
Summarized == result.op = "summarizeFlights" /\ result.kind = "returned"

\* the HRS column of a header array (LHRS when there is one), 0 if none
TachCol(h) ==
  IF \E k \in 1..Len(h) : h[k] = S_LHRS
    THEN CHOOSE k \in 1..Len(h) : h[k] = S_LHRS /\ \A j \in 1..(k - 1) : h[j] # S_LHRS
  ELSE IF \E k \in 1..Len(h) : h[k] = S_HRS
    THEN CHOOSE k \in 1..Len(h) : h[k] = S_HRS /\ \A j \in 1..(k - 1) : h[j] # S_HRS
  ELSE 0

\* the rows of a summary whose HRS cell is neither empty nor NA
TachRows(sm) ==
  IF TachCol(sm.headers) = 0 THEN {}
  ELSE {j \in 1..Len(sm.rows) :
          Trim(sm.rows[j][TachCol(sm.headers)]) \notin {<<>>, S_NA}}

\* the tenths a one-decimal cell stands for: the value that prints as the cell
TachRange == (0 - 300)..1100
CellTenths(c) == CHOOSE n \in TachRange : vbFloat1(n, 10) = Trim(c)

TachOf(sm, j) == CellTenths(sm.rows[j][TachCol(sm.headers)])

TachAsStated(sm) ==
  IF TachRows(sm) = {} THEN ~sm.hasTach
  ELSE /\ sm.hasTach
       /\ \E a, b \in TachRows(sm) :
            /\ \A j \in TachRows(sm) : a <= j /\ j <= b
            /\ sm.tachStart = TachOf(sm, a)
            /\ sm.tachEnd = TachOf(sm, b)
            /\ sm.tachDuration = TachOf(sm, b) - TachOf(sm, a)

\* C18: in every summary summarizeFlights returns, tachStart is the number
\* in the first and tachEnd the number in the last HRS (or LHRS) cell of the
\* flight's rows that is neither empty nor NA, tachDuration is their
\* difference to one decimal, and the three are undefined when there is no
\* such cell
C18_TachFromHrsCells ==
  Summarized => \A i \in 1..Len(result.summaries) : TachAsStated(result.summaries[i])

\* a summary of three rows whose HRS cells run from 24.3 to 24.6
C18_Witness ==
  /\ Summarized
  /\ \E i \in 1..Len(result.summaries) :
       /\ result.summaries[i].samples = 3
       /\ result.summaries[i].hasTach
       /\ result.summaries[i].tachStart = 243
       /\ result.summaries[i].tachEnd = 246
       /\ result.summaries[i].tachDuration = 3

(***************************************************************************)
(* C19.  One summary per directory entry.                                  *)
(***************************************************************************)
\* C19: a summarizeFlights call returns, with one summary per directory
\* entry in directory order, each with the entry's id and with samples
\* equal to the number of rows decodeFlightToRows returned for that id
C19_SummaryPerEntry ==
  result.op = "summarizeFlights" =>
    /\ result.kind = "returned"
    /\ Len(result.summaries) = Len(self.flights)
    /\ \A i \in 1..Len(result.summaries) :
         /\ ~self.flights[i].nan
         /\ result.summaries[i].id = self.flights[i].id
         /\ result.summaries[i].samples = Len(result.summaries[i].rows)

(***************************************************************************)
(* C20.  The CSV round trip.                                               *)
(***************************************************************************)
\* a trivial CSV reader: the lines of the text, each split on commas
ReadCsv(text) ==
  [i \in 1..Len(Split(text, "\n")) |-> Split(Split(text, "\n")[i], ",")]

Decoded == result.op = "decodeFlightToRows" /\ result.kind = "returned"

PlainCell(c) == \A k \in 1..Len(c) : c[k] \notin {",", "\n", "\r"}

\* C20: for every flight decodeFlightToRows returns, the text made of the
\* headers and the rows, joined with commas and line feeds, reads back as
\* exactly the header array followed by the row arrays, and no header or
\* cell holds a comma or a line break
C20_CsvRoundTrip ==
  Decoded =>
    /\ ReadCsv(CsvText(result.headers, result.rows)) = <<result.headers>> \o result.rows
    /\ \A k \in 1..Len(result.headers) : PlainCell(result.headers[k])
    /\ \A i \in 1..Len(result.rows) :
         \A k \in 1..Len(result.rows[i]) : PlainCell(result.rows[i][k])

\* a returned flight of two rows and at least four columns, with an empty
\* cell in it
C20_Witness ==
  /\ Decoded
  /\ Len(result.rows) = 2
  /\ Len(result.headers) >= 4
  /\ \E i \in 1..2 : \E k \in 3..Len(result.rows[i]) : result.rows[i][k] = <<>>
  /\ \E i \in 1..2 : \E k \in 3..Len(result.rows[i]) : Len(result.rows[i][k]) >= 2

(***************************************************************************)
(* C22, C23.  The directory after parseFile.                               *)
(***************************************************************************)
Parsed == result.op = "parseFile"

RECURSIVE DigitsAt(_, _, _)
\* the decimal number written from position p of b on (1-based)
DigitsAt(b, p, acc) ==
  IF p <= Len(b) /\ b[p] >= 48 /\ b[p] <= 57
    THEN DigitsAt(b, p + 1, acc * 10 + (b[p] - 48)) ELSE acc

RECURSIVE AfterComma(_, _)
\* the position after the next comma from position p on
AfterComma(b, p) == IF p > Len(b) \/ b[p] = 44 THEN p + 1 ELSE AfterComma(b, p + 1)

\* the position of the "$" of the i-th $D record of b
DTagAt(b, i) ==
  CHOOSE p \in DTags(b, Len(b)) : Cardinality({q \in DTags(b, Len(b)) : q <= p}) = i

\* the sizeWords field of the i-th $D record of b: the third field
SizeWords(b, i) == DigitsAt(b, AfterComma(b, AfterComma(b, DTagAt(b, i))), 0)

RECURSIVE SizesBefore(_, _)
\* the sum of the sizes of the entries before entry i
SizesBefore(b, i) ==
  IF i <= 1 THEN 0 ELSE SizesBefore(b, i - 1) + 2 * SizeWords(b, i - 1)

\* the start given to entry i by the metadata scan: 0 unless $L was reached
Nominal(i) ==
  IF self.scanStop = "L" THEN self.ptr + SizesBefore(self.bin, i) ELSE 0

RECURSIVE Shifts(_)
\* entry i is recovered by the probe at start - 1, r entries before it were
ProbeRecovers(i, r) ==
  /\ ~self.flights[i].nan
  /\ getWordAt(self.bin, Nominal(i) - r) # self.flights[i].id
  /\ getWordAt(self.bin, Nominal(i) - r - 1) = self.flights[i].id

\* the number of entries k <= i recovered by the probe at start - 1
Shifts(i) ==
  IF i = 0 THEN 0
  ELSE Shifts(i - 1) + (IF ProbeRecovers(i, Shifts(i - 1)) THEN 1 ELSE 0)

IdWordAt(i, pos) == ~self.flights[i].nan /\ getWordAt(self.bin, pos) = self.flights[i].id

\* C22: after parseFile every directory entry has found set; found is true
\* exactly if the word at the entry's start equals its id or, failing that,
\* the word one byte before does, in which case the start is moved there: so
\* a found entry has its id at its final start and an entry not found has
\* it neither at its start nor one byte before; an entry's start is moved
\* only by its own recovery and by recoveries of entries before it
C22_FoundIffIdAtStart ==
  Parsed =>
    \A i \in 1..Len(self.flights) :
      /\ self.flights[i].found \in {"true", "false"}
      /\ self.flights[i].found = "true" <=> IdWordAt(i, self.flights[i].start)
      /\ self.flights[i].found = "false" => ~IdWordAt(i, self.flights[i].start - 1)
      /\ self.flights[i].found = "true"
           <=> (IdWordAt(i, Nominal(i) - Shifts(i - 1))
                \/ IdWordAt(i, Nominal(i) - Shifts(i - 1) - 1))
      /\ (\A k \in 1..i : ~ProbeRecovers(k, Shifts(k - 1)))
           => self.flights[i].start = Nominal(i)

\* three entries: the first found at its start and left there, the second
\* recovered one byte before its computed start, the third not found
C22_Witness ==
  /\ Parsed
  /\ Len(self.flights) = 3
  /\ self.flights[1].found = "true" /\ self.flights[1].start = Nominal(1)
  /\ self.flights[2].found = "true" /\ self.flights[2].start = Nominal(2) - 1
  /\ self.flights[3].found = "false"

\* C23: after parseFile of a buffer whose metadata scan reached $L, entry i
\* has size twice the sizeWords of the i-th $D record and start equal to the
\* cursor after the $L terminator plus the sizes of the entries before it,
\* minus the number of entries k <= i recovered by the probe at start - 1
C23_StartsArePrefixSums ==
  (Parsed /\ self.scanStop = "L") =>
    \A i \in 1..Len(self.flights) :
      /\ self.flights[i].size = 2 * SizeWords(self.bin, i)
      /\ self.flights[i].start
           = self.ptr + SizesBefore(self.bin, i) - Shifts(i)

\* three entries with distinct starts, the second and third moved by one
C23_Witness ==
  /\ Parsed /\ self.scanStop = "L"
  /\ Len(self.flights) = 3
  /\ self.flights[2].start = self.ptr + self.flights[1].size - 1
  /\ self.flights[3].start
       = self.ptr + self.flights[1].size + self.flights[2].size - 1
  /\ self.flights[3].found = "true"

(***************************************************************************)
(* C24.  Validity flags of the data bytes.                                 *)
(***************************************************************************)
ValidAt(s, k) == s.dataBytes[k \div 8][k % 8].isValid

\* the cursor of the first data byte of the record the last call decoded
RecDataStart ==
  readSgn(self.bin,
          readCtl(self.bin, rr.savePtr + (IF self.edmTypeActual THEN 5 ELSE 3),
                  rr.flg0, 0, NoCtrl).p,
          rr.flg0, 0, NoCtrl).p

\* the data byte the buffer holds for slot k of the record whose data bytes
\* start at p and whose slots are slots
ByteOfSlot(slots, p, k) ==
  getByte(self.bin, p + Cardinality({j \in slots : j < k})).v

\* the data byte slots of table entry Hd
ChanSlots(Hd) ==
  (IF Hd.mLoBytIdx = -1 THEN {} ELSE {Hd.mLoBytIdx * 8 + Hd.mLoBitIdx})
  \cup (IF Hd.mHiBytIdx = -1 THEN {} ELSE {Hd.mHiBytIdx * 8 + Hd.mHiBitIdx})

\* the divisor of table entry Hd
ScaleOf(s, Hd) ==
  IF Hd.scaleVal = 0 THEN (IF s.fUnit = 0 THEN 10 ELSE 1) ELSE Hd.scaleVal

\* a step in which a record was decoded
RowStep ==
  /\ rr'.kind = "row"
  /\ \/ pc = "idle" /\ pc' = "loop"
     \/ pc = "loop" /\ pc' = "loop" /\ self'.ptr # self.ptr
     \/ pc = "idle" /\ pc' = "idle" /\ result'.op = "readRecord" /\ calls' # calls

\* the flags after a record with data bytes for slots, the first at p
FlagsFollowBytes(slots, p) ==
  \A k \in 0..127 :
    IF k \in slots
      THEN ValidAt(self', k) <=> (ByteOfSlot(slots, p, k) # 0)
      ELSE /\ ValidAt(self', k) <=> ValidAt(self, k)
           /\ self'.dataBytes[k \div 8][k % 8].value = 0

\* a channel none of whose bytes is among slots: no delta, the total kept,
\* and the cell is that total, or NA where the kept flags are invalid
AbsentChannelKept(slots) ==
  \A c \in 1..Len(self'.headerIndex) :
    LET idx == self'.headerIndex[c]
        Hd == HeaderTable[idx]
    IN (Hd.mLoBytIdx # -1 /\ ChanSlots(Hd) \cap slots = {}) =>
         /\ RecDelta(self', c) = 0
         /\ pc' = pc => self'.headers[idx] = self.headers[idx]
         /\ RecCell(c)' =
              (IF \E k \in ChanSlots(Hd) : ValidAt(self, k)
                 THEN DataStr(Hd.hdrStr, self'.headers[idx], ScaleOf(self', Hd))
                 ELSE S_NA)

FlagsStep ==
  /\ RowStep => \E slots \in {DataSlots(RecCtl)'} : \E p \in {RecDataStart'} :
                  FlagsFollowBytes(slots, p) /\ AbsentChannelKept(slots)
  /\ (~RowStep /\ result'.op # "summarizeFlights") =>
       \A k \in 0..127 : ValidAt(self', k) <=> ValidAt(self, k)

\* C24: the validity flag of a data byte changes only when a record that
\* carries the byte is decoded, to valid for a non-zero byte and to invalid
\* for a zero byte; for a byte the record does not carry the flag is kept
\* and the value is 0; a channel none of whose bytes is carried has delta 0,
\* an unchanged running total, and its cell is that total (NA where the
\* kept flags are invalid)
C24_ValidityFollowsBytes == [][FlagsStep]_vars

\* a record without an E1 byte was decoded after one with it: E1 is still
\* valid and its cell is the total 250 the earlier record left
C24_Witness ==
  /\ JustDecoded /\ result.op = "readRecord"
  /\ 0 \notin DataSlots(RecCtl) /\ DataSlots(RecCtl) # {}
  /\ ValidAt(self, 0)
  /\ \E c \in ColsOf(<<"E","1">>) : RecCell(c) = <<" ","2","5","0">>

(***************************************************************************)
(* C25.  NA or value.                                                      *)
(***************************************************************************)
\* the cell the claim gives the c-th enabled entry of instance s: NA when
\* the low byte is invalid and the high byte is missing or invalid, the
\* formatted running total otherwise
CellByFlags(s, c) ==
  LET Hd == HeaderTable[s.headerIndex[c]]
      lo == Hd.mLoBytIdx * 8 + Hd.mLoBitIdx
      hi == Hd.mHiBytIdx * 8 + Hd.mHiBitIdx
  IN IF ~ValidAt(s, lo) /\ (Hd.mHiBytIdx = -1 \/ ~ValidAt(s, hi))
       THEN S_NA
       ELSE DataStr(Hd.hdrStr, s.headers[s.headerIndex[c]], ScaleOf(s, Hd))

\* C25: in every record readRecord decodes, the cell of every enabled entry
\* other than DIF is the literal NA exactly if the entry's low byte is
\* invalid and the entry has no high byte or its high byte is invalid too,
\* and is the formatted running total otherwise
C25_NaIffBothInvalid ==
  JustDecoded =>
    \A c \in 1..Len(self.headerIndex) :
      HeaderTable[self.headerIndex[c]].mLoBytIdx # -1 =>
        /\ RecCell(c) = CellByFlags(self, c)
        /\ (RecCell(c) = S_NA) <=>
             (\A k \in ChanSlots(HeaderTable[self.headerIndex[c]]) : ~ValidAt(self, k))

\* HRS was decoded with a zero low byte and a high byte 2: the cell is the
\* value 75.2 and E1, never seen, is NA
C25_Witness ==
  /\ JustDecoded
  /\ ~ValidAt(self, 78) /\ ValidAt(self, 79)
  /\ \E c \in ColsOf(S_HRS) : RecCell(c) = <<"7","5",".","2">>
  /\ \E c \in ColsOf(<<"E","1">>) : RecCell(c) = S_NA

(***************************************************************************)
(* C26.  The carry-forward pass.                                           *)
(***************************************************************************)
\* the step in which decodeFlightToRows leaves its loop and returns
Returning == pc = "loop" /\ pc' = "idle"

\* the nearest row before i whose cell c is not blank in raw, 0 for none
LastValueBefore(raw, i, c) ==
  LET js == {j \in 1..(i - 1) : ~IsBlank(raw[j][c])}
  IN IF js = {} THEN 0 ELSE CHOOSE j \in js : \A k \in js : k <= j

\* fin is raw after the passes, for the columns that are carried forward
CarriedColumns(raw, fin, h) ==
  \A i \in 1..Len(raw) : \A c \in 3..Len(h) :
    h[c] \notin NoCarry =>
      /\ IsBlank(fin[i][c]) => \A j \in 1..i : IsBlank(fin[j][c]) /\ IsBlank(raw[j][c])
      /\ ~IsBlank(raw[i][c]) => fin[i][c] = raw[i][c]
      /\ (IsBlank(raw[i][c]) /\ LastValueBefore(raw, i, c) > 0)
           => fin[i][c] = raw[LastValueBefore(raw, i, c)][c]

\* MARK, SPD and ALT cells are as in raw; a LAT or LNG cell differs from raw
\* only in an interior row between two rows with a value (the next pass)
ExcludedColumns(raw, fin, h) ==
  \A i \in 1..Len(raw) : \A c \in 3..Len(h) :
    h[c] \in NoCarry =>
      \/ fin[i][c] = raw[i][c]
      \/ /\ h[c] \in {S_LAT, S_LNG}
         /\ 1 < i /\ i < Len(raw)
         /\ HasValue(raw[i - 1][c]) /\ HasValue(raw[i + 1][c])

CarryStep ==
  Returning =>
    /\ Len(result'.rows) = Len(loop.rows)
    /\ CarriedColumns(loop.rows, result'.rows, loop.headersArray)
    /\ ExcludedColumns(loop.rows, result'.rows, loop.headersArray)

\* C26: in the rows decodeFlightToRows returns, a cell of a column other
\* than DATE, TIME, MARK, LAT, LNG, SPD, ALT is NA or empty only if the
\* column is NA or empty in every earlier row; a cell that was NA in the row
\* as decoded holds the nearest earlier value of its column, a cell with a
\* value is unchanged, and cells of MARK, LAT, LNG, SPD, ALT are not filled
\* by the carry-forward pass
C26_CarryForward == [][CarryStep]_vars

\* three records E1 +7, E1 byte 0, E1 +10 were decoded: the second row
\* holds 247 carried from the first
C26_Witness ==
  /\ Decoded /\ self.bin \in FilesCarry
  /\ Len(result.rows) >= 3
  /\ result.rows[1][3] = <<" ","2","4","7">>
  /\ result.rows[2][3] = <<" ","2","4","7">>
  /\ result.rows[3][3] = <<" ","2","5","7">>

(***************************************************************************)
(* C27.  Single-gap smoothing of LAT and LNG.                              *)
(***************************************************************************)
\* column c of fin is column c of raw with every single gap filled from the
\* row before it and every longer run of blank cells left as it is
GapsFilled(raw, fin, c) ==
  \A i \in 1..Len(raw) :
    IF 1 < i /\ i < Len(raw) /\ IsBlank(raw[i][c])
       /\ HasValue(raw[i - 1][c]) /\ HasValue(raw[i + 1][c])
      THEN fin[i][c] = raw[i - 1][c]
      ELSE fin[i][c] = raw[i][c]

SmoothStep ==
  Returning =>
    \A c \in 3..Len(loop.headersArray) :
      loop.headersArray[c] \in {S_LAT, S_LNG} =>
        GapsFilled(loop.rows, result'.rows, c)

\* C27: in the rows decodeFlightToRows returns, an interior row whose LAT
\* cell was NA or empty between two rows with a LAT value holds the previous
\* row's LAT, and so for LNG, each column by itself and also when only one
\* of the two is configured; two or more blank cells in a row stay blank
C27_GpsSmoothing == [][SmoothStep]_vars

(***************************************************************************)
(* C28.  Repeat rows.                                                      *)
(***************************************************************************)
\* a loop step that appends a row
Pushing == pc = "loop" /\ pc' = "loop" /\ Len(loop'.rows) = Len(loop.rows) + 1

RowTime(row) == ParseDate(row[1], row[2])

\* rows a and b agree in every column but DATE, TIME and MARK
SameButMark(a, b, h) ==
  /\ Len(a) = Len(b)
  /\ \A c \in 3..Len(a) : c # MarkCol(h) => a[c] = b[c]

\* the row a repeat pushes after the row prev: one interval later, the same
\* cells outside MARK, blank position cells of the record taken from prev
RepeatRow(prev, new, raw, h) ==
  /\ RowTime(prev).valid
       => RowTime(new) = AddSeconds(RowTime(prev), self.recordInterval)
  /\ SameButMark(prev, new, h)
  /\ \A c \in 3..Len(h) :
       (h[c] \in {S_LAT, S_LNG, S_SPD, S_ALT} /\ c <= Len(raw) /\ IsBlank(raw[c]))
         => new[c] = prev[c]

RepeatStep ==
  /\ (Pushing /\ rr.kind = "repeat" /\ Len(loop.rows) > 0)
       => RepeatRow(loop.rows[Len(loop.rows)], loop'.rows[Len(loop'.rows)],
                    SplitRow(loop.rec, loop.headersArray), loop.headersArray)
  /\ Returning =>
       \A i \in 2..Len(loop.rows) :
         /\ result'.rows[i][1] = loop.rows[i][1]
         /\ result'.rows[i][2] = loop.rows[i][2]
         /\ SameButMark(loop.rows[i - 1], loop.rows[i], loop.headersArray)
              => SameButMark(result'.rows[i - 1], result'.rows[i], loop.headersArray)

\* C28: a row decodeFlightToRows appends for a repeat has the timestamp of
\* the row before it plus the recordInterval in effect, has the cells of the
\* row before it in every column other than MARK, and holds the previous
\* row's cell where the repeated record's LAT, LNG, SPD or ALT is NA or
\* empty; the passes before the return keep the timestamps and keep two
\* successive rows that agree outside MARK in agreement
C28_RepeatRows == [][RepeatStep]_vars

(***************************************************************************)
(* C29.  The HRS rule of the first record.                                 *)
(***************************************************************************)
\* the two HRS data bytes as the record left them
HrsLo(s) == s.dataBytes[9][6]
HrsHi(s) == s.dataBytes[9][7]

\* the HRS delta by the rule of the first record and by the ordinary rule
HrsFirstRule(s) == 0 - (HrsLo(s).value + HrsHi(s).value)
HrsOrdinaryRule(s) ==
  (IF HrsLo(s).sign THEN 0 - HrsLo(s).value ELSE HrsLo(s).value)
  + (IF HrsHi(s).sign THEN 0 - HrsHi(s).value ELSE HrsHi(s).value)

\* the record decoded in this step is the first read since openFlight: the
\* first read of decodeFlightToRows, or a readRecord call right after an
\* openFlight call that returned
FirstSinceOpen == (pc = "idle" /\ pc' = "loop") \/ (pc = "idle" /\ Opened)

\* the HRS total before the record decoded in this step
HrsBefore(idx) == IF pc = "idle" /\ pc' = "loop" THEN 240 ELSE self.headers[idx]

HrsStep ==
  RowStep =>
    \A c \in 1..Len(self'.headerIndex) :
      HeaderTable[self'.headerIndex[c]].hdrStr = S_HRS =>
        self'.headers[self'.headerIndex[c]] - HrsBefore(self'.headerIndex[c])
          = (IF FirstSinceOpen /\ HrsLo(self').sign
               THEN HrsFirstRule(self') ELSE HrsOrdinaryRule(self'))

\* C29: the first record decoded after openFlight, by decodeFlightToRows or
\* by a readRecord call that follows openFlight, changes the HRS total by
\* -(low + high) when the sign bit of the low byte is set, whatever the sign
\* bit of the high byte; every later record changes it by the signed low
\* byte plus or minus the high byte
C29_HrsFirstRecord == [][HrsStep]_vars

(***************************************************************************)
(* C30.  What changes recordInterval.                                      *)
(***************************************************************************)
\* a step in which openFlight returned, alone or inside decodeFlightToRows
Opening ==
  \/ pc = "idle" /\ pc' = "loop"
  \/ pc = "idle" /\ result'.op = "openFlight" /\ result'.threw = "" /\ calls' # calls

\* the flight header of the entry selected in this step was scanned
ScannedNow ==
  /\ ~Entry(self').nan
  /\ getWordAt(self'.bin, Entry(self').start) = Entry(self').id

\* the interval in effect before the records of this step: the one of the
\* flight header when this step scanned one, the earlier one otherwise
IntervalBase ==
  IF Opening /\ ScannedNow THEN Entry(self').interval ELSE self.recordInterval

\* the interval after a decoded record whose MARK total is total
IntervalByMark(total, base, orig) ==
  IF total % 8 \in {2, 4} THEN 1
  ELSE IF total % 8 \in {3, 5} THEN orig
  ELSE base

\* the enabled entries of s with the token MARK
MarkEntries(s) ==
  {s.headerIndex[c] : c \in {k \in 1..Len(s.headerIndex) :
                                HeaderTable[s.headerIndex[k]].hdrStr = S_MARK}}

IntervalStep ==
  result'.op # "summarizeFlights" =>
    /\ self'.originalInterval
         = (IF Opening /\ ScannedNow THEN Entry(self').interval
            ELSE self.originalInterval)
    /\ (RowStep /\ MarkEntries(self') # {})
         => \A idx \in MarkEntries(self') :
              self'.recordInterval
                = IntervalByMark(self'.headers[idx], IntervalBase,
                                 self'.originalInterval)
    /\ ~(RowStep /\ MarkEntries(self') # {})
         => self'.recordInterval = IntervalBase

\* C30: recordInterval is set to the header's interval when openFlight scans
\* a flight header and is changed afterwards only by a decoded record of a
\* flight with a MARK column: to 1 when the MARK value's low three bits are
\* 2 or 4, to the interval of the header when they are 3 or 5; low bits 0,
\* 1, 6, 7, repeat rows, the end of the stream and records of flights
\* without a MARK column leave it as it is; it is always 1 or the interval
\* read from the header
C30_IntervalFrame ==
  /\ [](self.recordInterval \in {1, self.originalInterval})
  /\ [][IntervalStep]_vars

\* a record with MARK '[' was decoded in a flight with interval 6: the
\* interval is 1
C30_Witness ==
  /\ JustDecoded /\ MarkEntries(self) # {}
  /\ \A idx \in MarkEntries(self) : self.headers[idx] % 8 = 2
  /\ self.recordInterval = 1 /\ self.originalInterval = 6

(***************************************************************************)
(* C31.  Scale, sign mask and sign byte of a data byte.                    *)
(***************************************************************************)
\* the scale the table gives the data byte of group g, bit b
TableScale(g, b) ==
  IF \/ g = 5 /\ b \in {2, 4}
     \/ g \in {6, 7}
     \/ g = 10 /\ b \in {1, 2}
     \/ g \in {9, 12} /\ b \in {4, 5, 7}
     \/ g \in {13, 14} /\ b \in {4, 5, 6}
    THEN 256 ELSE 1

\* the mask the table gives it: 1 << b, adjusted
TableMask(g, b) ==
  IF g = 5 /\ b \in {2, 4} THEN Pow2(b - 1)
  ELSE IF g = 10 /\ b \in {1, 2} THEN Pow2(b + 5)
  ELSE IF g \in {9, 12} /\ b \in {4, 5} THEN Pow2(b - 4)
  ELSE IF g \in {13, 14} /\ b \in {4, 5, 6} THEN Pow2(b - 4)
  ELSE Pow2(b)

\* the control and sign bytes of the record the last call decoded, as the
\* buffer holds them
RecSgn ==
  readSgn(self.bin,
          readCtl(self.bin, rr.savePtr + (IF self.edmTypeActual THEN 5 ELSE 3),
                  rr.flg0, 0, NoCtrl).p,
          rr.flg0, 0,
          readCtl(self.bin, rr.savePtr + (IF self.edmTypeActual THEN 5 ELSE 3),
                  rr.flg0, 0, NoCtrl).ctl)

\* the sign byte the table gives group g
TableSignByte(ctl, g) ==
  IF g = 6 THEN ctl[0].sgnIdx ELSE IF g = 7 THEN ctl[3].sgnIdx ELSE ctl[g].sgnIdx

\* every data byte of a record with control and sign bytes ctl, data bytes
\* from p on, is stored as the table says
StoredByTable(ctl, p) ==
  \A k \in DataSlots(ctl) :
    /\ self.dataBytes[k \div 8][k % 8].value
         = ByteOfSlot(DataSlots(ctl), p, k) * TableScale(k \div 8, k % 8)
    /\ self.dataBytes[k \div 8][k % 8].sign
         <=> TestMask(TableSignByte(ctl, k \div 8), TableMask(k \div 8, k % 8))

BufByte(pos) == self.bin[pos + 1]

\* the set bits i in 0..15 of x
BitsOf(x) == {i \in 0..15 : TestMask(x, Pow2(i))}

\* the size of the two flag values
FlagBytes == IF self.edmTypeActual THEN 4 ELSE 2

\* the layout of the record at offset p with flags flg0: control bytes, sign
\* bytes, data bytes and the checksum follow the flags and the mult byte
CtlPos(p, flg0, i) == p + FlagBytes + 1 + Cardinality({j \in BitsOf(flg0) : j < i})
SgnPos(p, flg0, i) ==
  p + FlagBytes + 1 + Cardinality(BitsOf(flg0))
  + Cardinality({j \in BitsOf(flg0) \ {6, 7} : j < i})
DataStartOf(p, flg0) ==
  p + FlagBytes + 1 + Cardinality(BitsOf(flg0)) + Cardinality(BitsOf(flg0) \ {6, 7})

\* the (group, bit) pairs k = 8 * group + bit with a data byte
SlotsAt(p, flg0) ==
  {k \in 0..127 : /\ (k \div 8) \in BitsOf(flg0)
                  /\ CtlPos(p, flg0, k \div 8) < Len(self.bin)
                  /\ TestMask(BufByte(CtlPos(p, flg0, k \div 8)), Pow2(k % 8))}

\* the number of bytes of the record
RecordBytes(p, flg0) == DataStartOf(p, flg0) - p + Cardinality(SlotsAt(p, flg0)) + 1

\* the record at p lies inside the buffer, and the decoder took its flags,
\* mult and data bytes from the places of the layout and stopped behind it
ConsumedInOrder(p, flg0, slots, n) ==
  p + n <= Len(self.bin) =>
    /\ self.ptr = p + n
    /\ rr.flg0 = (IF self.edmTypeActual
                    THEN BufByte(p) * 256 + BufByte(p + 1) ELSE BufByte(p))
    /\ rr.flg1 = (IF self.edmTypeActual
                    THEN BufByte(p + 2) * 256 + BufByte(p + 3) ELSE BufByte(p + 1))
    /\ rr.mult = BufByte(p + FlagBytes)
    /\ \A k \in slots :
         self.dataBytes[k \div 8][k % 8].value
           = BufByte(DataStartOf(p, flg0) + Cardinality({j \in slots : j < k}))
             * ScaleAt(k \div 8, k % 8)
    /\ \A i \in BitsOf(flg0) \ {6, 7} : \A b \in 0..7 :
         (i * 8 + b) \in slots =>
           (self.dataBytes[i][b].sign
              <=> TestMask(BufByte(SgnPos(p, flg0, i)), SgnMaskAt(i, b)))

\* C32: a decoded record that lies inside the buffer is read as two flag
\* values (words on an EDM-type device, bytes otherwise), the mult byte, one
\* control byte for each set bit of flg0, one sign byte for each set bit
\* other than 6 and 7, one data byte for each set bit of each control byte in
\* ascending (group, bit) order and one checksum byte, and the cursor
\* advances by the number of these bytes
C32_RecordLayout ==
  JustDecoded =>
    \E slots \in {SlotsAt(rr.savePtr, rr.flg0)} :
      ConsumedInOrder(rr.savePtr, rr.flg0, slots, RecordBytes(rr.savePtr, rr.flg0))

\* the record with groups 0, 3, 6 and 7 was decoded on an EDM-type device:
\* 4 flag bytes, mult, 4 control bytes, 2 sign bytes, 4 data bytes and the
\* checksum, 16 bytes
C32_Witness ==
  /\ JustDecoded /\ self.edmTypeActual
  /\ rr.flg0 = 201
  /\ RecordBytes(rr.savePtr, rr.flg0) = 16
  /\ self.ptr = rr.savePtr + 16

(***************************************************************************)
(* The cursor primitives by themselves: an instance holding a buffer b,    *)
(* its cursor anywhere in 0..Len(b), on which skip and getLong are called. *)
(***************************************************************************)
MaxSkip == 6

PrimBytes == {0, 1, 128, 255}

\* every buffer of four bytes, alone and behind one more byte
PrimBufs ==
  LET four == {q \in SeqsUpTo(PrimBytes, 4) : Len(q) = 4}
  IN four \cup {<<9>> \o q : q \in four}

PrimInit ==
  /\ \E b \in PrimBufs : \E p \in 0..Len(b) :
       self = [NewDecomp EXCEPT !.bin = b, !.ptr = p]
  /\ pc = "prim"
  /\ calls = 0
  /\ loop = NoLoop
  /\ result = NoResult
  /\ rr = NoRead
  /\ run = NoRun
  /\ firstOut = <<>>
  /\ tick = 0

\* skip(n)
PrimSkip ==
  /\ pc = "prim"
  /\ \E n \in 0..MaxSkip :
       /\ self' = [self EXCEPT !.ptr = skip(Len(self.bin), self.ptr, n)]
       /\ result' = [NoResult EXCEPT !.op = "skip", !.id = n]
  /\ UNCHANGED <<pc, calls, loop, rr, run, firstOut, tick>>

\* getLong(): result.kind is "nan" or "value", result.id the value
PrimReturned(r) ==
  /\ self' = [self EXCEPT !.ptr = r.p]
  /\ result' = [NoResult EXCEPT !.op = "getLong", !.id = r.v,
                                !.kind = IF r.nan THEN "nan" ELSE "value"]

PrimGetLong ==
  /\ pc = "prim"
  /\ PrimReturned(getLong(self.bin, self.ptr))
  /\ UNCHANGED <<pc, calls, loop, rr, run, firstOut, tick>>

PrimNext == PrimSkip \/ PrimGetLong

PrimSpec == PrimInit /\ [][PrimNext]_vars

(***************************************************************************)
(* C33.  skip.                                                             *)
(***************************************************************************)
Min(a, b) == IF a <= b THEN a ELSE b

SkipStep ==
  (result'.op = "skip" /\ self.ptr <= Len(self.bin))
    => /\ self'.ptr = Min(self.ptr + result'.id, Len(self.bin))
       /\ self'.ptr <= Len(self.bin)

\* C33: skip(n) called with the cursor in 0..length leaves the cursor at
\* min(cursor + n, length), never beyond the buffer length
C33_SkipClamped == [][SkipStep]_vars

(***************************************************************************)
(* C34.  getLong.                                                          *)
(***************************************************************************)
\* the two's-complement value of the four bytes at offset p, high byte first
SignedAt(b, p) ==
  (IF b[p + 1] >= 128 THEN b[p + 1] - 256 ELSE b[p + 1]) * 16777216
  + b[p + 2] * 65536 + b[p + 3] * 256 + b[p + 4]

LongStep ==
  result'.op = "getLong" =>
    IF self.ptr + 4 <= Len(self.bin)
      THEN /\ result'.kind = "value"
           /\ result'.id = SignedAt(self.bin, self.ptr)
           /\ result'.id >= 0 - 2147483647 - 1 /\ result'.id <= 2147483647
           /\ self'.ptr = self.ptr + 4
      ELSE /\ result'.kind = "nan"
           /\ self'.ptr = self.ptr

\* C34: getLong with four bytes left returns their big-endian two's-
\* complement signed 32-bit value and moves the cursor by 4; with fewer than
\* four bytes left it returns not-a-number and leaves the cursor
C34_GetLongSigned == [][LongStep]_vars

\* getLong has returned -2^31 for the bytes 128, 0, 0, 0 behind one byte,
\* the cursor moved from 1 to 5
C34_Witness ==
  /\ pc = "prim" /\ result.op = "getLong" /\ result.kind = "value"
  /\ self.bin = <<9, 128, 0, 0, 0>> /\ self.ptr = 5
  /\ result.id = 0 - 2147483647 - 1

\* ---------------------------------------------------------------------------
\* C35

\* the metadata of the parsed file holds a $P record ("$P" opens a line)
ScannedP ==
  \E p \in 1..(Len(self.bin) - 1) :
    /\ self.bin[p] = 36 /\ self.bin[p + 1] = 80
    /\ (p = 1 \/ self.bin[p - 1] = 10)

\* the $P record comes after the $C record
PAfterC ==
  \E p, c \in 1..(Len(self.bin) - 1) :
    /\ self.bin[p] = 36 /\ self.bin[p + 1] = 80
    /\ self.bin[c] = 36 /\ self.bin[c + 1] = 67
    /\ c < p

\* C35: once parseFile has scanned a $P record the device is EDM-type, and a
\* flight opened afterwards is read as EDM-type (16-bit flag words, config
\* words 2..4), whatever model the $C record names and wherever it stands
C35_ProtocolForcesEdm ==
  (pc # "new" /\ ScannedP) =>
     /\ self.edmType
     /\ (Opened /\ self.headers # <<>>) => self.edmTypeActual

\* the same with the $P record after the $C record
ProtocolAfterModel ==
  (pc # "new" /\ ScannedP /\ PAfterC) =>
     /\ self.edmType
     /\ (Opened /\ self.headers # <<>>) => self.edmTypeActual

\* a flight opened from a file whose $C names a model below 900 and whose $P
\* record follows it
ProtocolAfterModelOpened ==
  /\ Opened /\ ScannedP /\ PAfterC /\ self.model = M700
  /\ self.edmTypeActual /\ self.headers # <<>>

\* ---------------------------------------------------------------------------
\* C36

\* the k-th 16-bit word (k from 0) of the block of the selected flight
OwnWord(k) == getWordAt(self.bin, Entry(self).start + 2 * k)

\* the config words the header bytes of the selected flight hold: two words
\* on a device that is not EDM-type, five on one that is
OwnCfg ==
  IF self.edmType
    THEN <<OwnWord(1), OwnWord(2), OwnWord(3), OwnWord(4), OwnWord(5)>>
    ELSE <<OwnWord(1), OwnWord(2), 0, 0, 0>>

\* the header holds starting coordinates between the config words and the
\* unit bytes
OwnSeeded ==
  /\ self.edmType /\ ParseIntOr0(self.model) = 900
  /\ ParseSignedOr0(self.buildNum) >= 1000
  /\ BitAnd(OwnWord(5), 120) # 0

\* the interval word of the header of the selected flight
OwnInterval ==
  OwnWord((IF self.edmType THEN 6 ELSE 3) + (IF OwnSeeded THEN 4 ELSE 0) + 1)

\* the header values of the instance are those of the selected block
OwnHeaderValues ==
  /\ self.cfgWord = OwnCfg
  /\ self.recordInterval = OwnInterval
  /\ self.originalInterval = OwnInterval
  /\ Entry(self).interval = OwnInterval

\* C36: after every openFlight that returns, the config words, the record
\* interval and the original interval are the ones written in the header of
\* the flight just opened, never ones left by an earlier openFlight
C36_HeaderFromOwnBytes == Opened => OwnHeaderValues

\* the same for a flight whose block starts with the id of its $D record
OwnHeaderWhenScanned == HeaderScanned => OwnHeaderValues

\* a second flight opened after a first one with other config words
SecondHeaderScanned ==
  /\ HeaderScanned /\ calls >= 2 /\ self.currFltIdx = 1
  /\ self.cfgWord = CfgE


\* the second flight opened after the first: the config words of the first
\* flight are still in place though the second block holds other ones
StaleHeaderValues ==
  /\ Opened /\ calls >= 2 /\ self.currFltIdx = 1
  /\ self.cfgWord = CfgMark /\ OwnCfg = CfgE

\* ---------------------------------------------------------------------------
\* C37

\* four bytes lie in the buffer from offset pos on
LongInBuffer(pos) == pos + 3 < Len(self.bin)

\* the offsets of the starting LAT and LNG in the block of entry f, behind
\* the id word and the five config words
LatPos(f) == f.start + 12
LngPos(f) == f.start + 16

\* a stored start was read from four bytes of the buffer and is their value
StartsAreRead ==
  \A j \in 1..Len(self.flights) :
    LET f == self.flights[j]
    IN /\ f.hasLat => /\ LongInBuffer(LatPos(f))
                      /\ f.latitudeStart = SignedAt(self.bin, LatPos(f))
       /\ f.hasLng => /\ LongInBuffer(LngPos(f))
                      /\ f.longitudeStart = SignedAt(self.bin, LngPos(f))

\* right after openFlight a LAT / LNG channel whose starting read ran out of
\* bytes has the default total
UnderflowNotSeeded ==
  Opened =>
    \A i \in 1..Len(self.headers) :
      /\ (HeaderTable[i].hdrStr = S_LAT /\ ~LongInBuffer(LatPos(Entry(self))))
            => self.headers[i] = 240
      /\ (HeaderTable[i].hdrStr = S_LNG /\ ~LongInBuffer(LngPos(Entry(self))))
            => self.headers[i] = 240

\* C37: every channel's running total is a finite number in every reachable
\* state: a starting LAT / LNG is stored only if its four bytes were read
\* from the buffer, a read that underflowed leaves the channel at its default
\* total, and record reads, past-end reads included, keep every total an
\* integer of 32 bits
C37_TotalsFinite ==
  /\ \A i \in 1..Len(self.headers) :
       self.headers[i] \in (0 - 2147483647)..2147483647
  /\ StartsAreRead
  /\ UnderflowNotSeeded

\* a flight was opened whose starting LAT was read and whose starting LNG
\* ran out of bytes, and a readRecord call has returned on it
C37_Witness ==
  /\ self.currFltIdx >= 0 /\ self.headers # <<>>
  /\ Entry(self).hasLat /\ ~Entry(self).hasLng
  /\ ~LongInBuffer(LngPos(Entry(self)))
  /\ rr # NoRead
  /\ \A i \in 1..Len(self.headers) :
       HeaderTable[i].hdrStr = S_LNG => self.headers[i] \in 239..240

\* ---------------------------------------------------------------------------
\* C38

\* the last call was a readRecord that returned end-of-stream
AtEndOfStream == result.op = "readRecord" /\ result.kind = "eos"

\* a readRecord call made right after one that returned end-of-stream
\* returns end-of-stream again, emits no text and leaves the cursor
EosIsFinal ==
  (AtEndOfStream /\ result'.op = "readRecord") =>
     /\ result'.kind = "eos"
     /\ result'.text = <<>>

\* C38: once readRecord has returned the end-of-stream sentinel, every later
\* readRecord call made without a new openFlight returns end-of-stream too
\* and emits no row
C38_EndOfStreamFinal == [][EosIsFinal]_vars

\* end-of-stream was returned because the cursor stood at the flight end
AtFlightEnd == AtEndOfStream /\ rr.flg0 = NotRead

\* the same with the cursor at the flight end (no flag word was read)
EosAtFlightEndIsFinal ==
  [][(AtFlightEnd /\ result'.op = "readRecord") =>
        (result'.kind = "eos" /\ self' = self)]_vars

\* ---------------------------------------------------------------------------
\* C39

\* the offset behind the record the last call decoded, by the layout its
\* flag and control bytes give
RecEnd == rr.savePtr + RecordBytes(rr.savePtr, rr.flg0)

\* the record just decoded lies in the block of the selected flight
RowInsideFlight ==
  JustDecoded =>
    /\ Entry(self).start <= rr.savePtr
    /\ RecEnd <= Entry(self).start + Entry(self).size
    /\ self.ptr <= self.endOfFlight

\* the record just decoded lies in the buffer
RowInsideBuffer == JustDecoded => RecEnd <= Len(self.bin)

\* C39: every row readRecord emits is decoded only from bytes of the open
\* flight's range [start, start + size) that lie in the buffer: the cursor
\* does not pass the flight's end while a record is decoded, and a record
\* the flight end or the buffer end cuts short is not emitted
C39_RowFromFlightBytes == RowInsideFlight /\ RowInsideBuffer

\* what the guard of readRecord gives: a decoded record starts more than
\* four bytes before the flight's end
RowStartsBeforeEnd == JustDecoded => rr.savePtr < self.endOfFlight - 4

\* ---------------------------------------------------------------------------
\* C40

\* what a fresh instance returns for the flight the last decodeFlightToRows
\* call decoded
FreshOutcome == FreshDecode(self.bin)[FindFlight(self, result.id) + 1]

\* C40: the rows decodeFlightToRows returns for a flight do not depend on
\* what the instance decoded before: they are the rows a fresh instance that
\* parsed the same file returns for that flight
C40_RowsAsFreshInstance ==
  (result.op = DecodeOp /\ result.kind = "returned")
    => /\ result.headers = FreshOutcome.headers
       /\ result.rows = FreshOutcome.rows

\* the same for the first decoding call made on an instance
FirstCallAsFresh ==
  (result.op = DecodeOp /\ result.kind = "returned" /\ calls = 1)
    => /\ result.headers = FreshOutcome.headers
       /\ result.rows = FreshOutcome.rows

=============================================================================
